---- MODULE Spec2Model ----
(***************************************************************************)
(* The TypeScript validation library of src/8/test_report.md (lines        *)
(* 557-2055): validators are objects on a heap, the chainable              *)
(* configuration methods mutate them, and validate(value, path) walks the  *)
(* validator tree and returns a ValidationResult.                          *)
(*                                                                         *)
(* JavaScript values are records with a tag t.  Strings that are inspected *)
(* character by character (validated values) are sequences of one-char     *)
(* strings; paths, messages and object keys are TLA+ strings.  A number is *)
(* a decimal m / 10^e with no trailing zero in m when e > 0, so 0.5 and    *)
(* 1234.56 are exact.  An optional field (x?: T) is a sequence: <<>> is    *)
(* undefined, <<v>> is v.                                                  *)
(*                                                                         *)
(* What new Date(string) returns for a string that is not in the ISO       *)
(* format is left to the JavaScript engine: legacyDate is the time value   *)
(* the engine under the program gives such strings, NaN or a valid time.   *)
(***************************************************************************)
EXTENDS Integers, Sequences, FiniteSets, TLC

VARIABLES heap, call, result, previous, legacyDate

vars == <<heap, call, result, previous, legacyDate>>

(* --------------------------- JavaScript values -------------------------- *)

Undefined == [t |-> "undefined"]
Null == [t |-> "null"]
NaN == [t |-> "NaN"]
Bool(b) == [t |-> "boolean", b |-> b]
RECURSIVE Pow10(_)
Pow10(e) == IF e = 0 THEN 1 ELSE 10 * Pow10(e - 1)

RECURSIVE Num(_, _)
\* The number m / 10^e, in its normal form.
Num(m, e) ==
    IF e > 0 /\ m % 10 = 0 THEN Num(m \div 10, e - 1)
    ELSE [t |-> "number", m |-> m, e |-> e]

\* a < b for two numbers (neither is NaN).
Less(a, b) == a.m * Pow10(b.e) < b.m * Pow10(a.e)

\* Number.isInteger
IsInteger(a) == a.e = 0

\* -a
Negate(a) == [a EXCEPT !.m = 0 - a.m]
Str(s) == [t |-> "string", s |-> s]
Arr(items) == [t |-> "array", items |-> items]
Obj(props) == [t |-> "object", props |-> props]

\* The empty object {}.
EmptyProps == [k \in {} |-> Undefined]

\* typeof value
TypeOf(v) ==
    CASE v.t = "undefined" -> "undefined"
      [] v.t = "boolean" -> "boolean"
      [] v.t = "number" -> "number"
      [] v.t = "NaN" -> "number"
      [] v.t = "string" -> "string"
      [] OTHER -> "object"

\* value === undefined || value === null
IsAbsent(v) == v.t = "undefined" \/ v.t = "null"

\* a !== b is ~StrictEquals(a, b); NaN is not equal to itself.
StrictEquals(a, b) == a = b /\ a.t # "NaN"

\* obj[key] for a plain object or a Date: the own property or undefined.
GetProp(obj, key) ==
    IF obj.t = "object" /\ key \in DOMAIN obj.props THEN obj.props[key] ELSE Undefined

RECURSIVE PadZeros(_, _)
\* The decimal digits of n, with zeros in front up to the given width.
PadZeros(n, width) ==
    IF width <= 0 THEN ""
    ELSE IF n < Pow10(width - 1) THEN "0" \o PadZeros(n, width - 1)
    ELSE ToString(n)

\* String(a) for a number a.
NumToString(a) ==
    LET abs == IF a.m < 0 THEN 0 - a.m ELSE a.m
    IN (IF a.m < 0 THEN "-" ELSE "")
       \o ToString(abs \div Pow10(a.e))
       \o (IF a.e = 0 THEN "" ELSE "." \o PadZeros(abs % Pow10(a.e), a.e))

RECURSIVE JoinChars(_)
\* The TLA+ string of a sequence of characters.
JoinChars(s) == IF s = <<>> THEN "" ELSE Head(s) \o JoinChars(Tail(s))

\* `${value}` for a literal value (string, number or boolean).
TemplateString(v) ==
    CASE v.t = "string" -> JoinChars(v.s)
      [] v.t = "number" -> NumToString(v)
      [] v.t = "boolean" -> (IF v.b THEN "true" ELSE "false")
      [] OTHER -> v.t

(* ------------------------------ results -------------------------------- *)

\* createError's return value.
Error(path, message, code) == [path |-> path, message |-> message, code |-> code]

Result(success, data, errors) == [success |-> success, data |-> data, errors |-> errors]

\* { success: false, errors: [...] }: no data property.
Failure(errors) == Result(FALSE, Undefined, errors)

\* A call that ends with an exception of the given class instead of
\* returning a ValidationResult.
Thrown(name) == [thrown |-> name]

IsThrown(completion) == "thrown" \in DOMAIN completion

(* ------------------------- validator objects --------------------------- *)

\* `x?: T` that is set.
IsSet(opt) == opt # <<>>

\* const x = value; F(x): a value that is computed once and then named.
With(value, F(_)) == F(value)

\* A freshly constructed validator of the given class, with the field
\* initialisers of its class and of the base class Validator.
NewValidator(kind) ==
    [kind |-> kind,
     isOptional |-> FALSE,
     customMessage |-> <<>>,
     minLengthValue |-> <<>>,
     maxLengthValue |-> <<>>,
     regexPattern |-> <<>>,
     minValue |-> <<>>,
     maxValue |-> <<>>,
     isInteger |-> <<>>,
     currencyFormat |-> <<>>,
     minAmount |-> <<>>,
     maxAmount |-> <<>>,
     allowNegative |-> FALSE,
     minDate |-> <<>>,
     maxDate |-> <<>>,
     formatPattern |-> <<>>,
     formatRegex |-> <<>>,
     itemValidator |-> 0,
     schema |-> <<>>,
     literal |-> Undefined,
     validators |-> <<>>]

\* Validator.optional
optional(v) == [v EXCEPT !.isOptional = TRUE]

\* Validator.withMessage
withMessage(v, message) == [v EXCEPT !.customMessage = <<message>>]

\* this.customMessage || message: undefined and "" are both falsy.
MessageOr(v, message) ==
    IF IsSet(v.customMessage) /\ v.customMessage[1] # ""
    THEN v.customMessage[1]
    ELSE message

\* Validator.createError
createError(v, path, message, code) == Error(path, MessageOr(v, message), code)

\* handleOptional with the required branch taken for undefined alone.
handleOptional_UndefinedOnly(v, value, path) ==
    IF v.isOptional /\ IsAbsent(value)
    THEN <<Result(TRUE, Undefined, <<>>)>>
    ELSE IF ~v.isOptional /\ value.t = "undefined"
         THEN <<Failure(<<createError(v, path, "Value is required", "REQUIRED")>>)>>
         ELSE <<>>

\* Validator.handleOptional: <<>> is null (continue with normal validation).
handleOptional(v, value, path) ==
    IF v.isOptional /\ IsAbsent(value)
    THEN <<Result(TRUE, Undefined, <<>>)>>
    ELSE IF ~v.isOptional /\ IsAbsent(value)
         THEN <<Failure(<<createError(v, path, "Value is required", "REQUIRED")>>)>>
         ELSE <<>>

(* --------------------------- regular expressions ------------------------ *)

UpperCase ==
    {"A", "B", "C", "D", "E", "F", "G", "H", "I", "J", "K", "L", "M",
     "N", "O", "P", "Q", "R", "S", "T", "U", "V", "W", "X", "Y", "Z"}

\* \s, as far as the modelled strings go.
Whitespace == {" ", "\t", "\n"}

\* The sources of the regular expressions of the model.
EmailSource == "^[^\\s@]+@[^\\s@]+\\.[^\\s@]+$"
UrlSource == "^https?:\\/\\/.+"
UpperSource == "^[A-Z]+$"
CharSource == "a"

\* A RegExp object: its source, its g flag and its lastIndex property.
RegExp(source, global) == [source |-> source, global |-> global, lastIndex |-> 0]

\* [^\s@]+ matches the whole of s[from..to].
NoSpaceOrAt(s, from, to) ==
    /\ from <= to
    /\ \A k \in from..to : s[k] \notin Whitespace \cup {"@"}

\* /^[^\s@]+@[^\s@]+\.[^\s@]+$/ matches s.
IsEmail(s) ==
    \E a \in 1..Len(s) : \E d \in 1..Len(s) :
        /\ s[a] = "@"
        /\ s[d] = "."
        /\ NoSpaceOrAt(s, 1, a - 1)
        /\ NoSpaceOrAt(s, a + 1, d - 1)
        /\ NoSpaceOrAt(s, d + 1, Len(s))

\* s starts with the characters of prefix.
StartsWith(s, prefix) ==
    /\ Len(prefix) <= Len(s)
    /\ SubSeq(s, 1, Len(prefix)) = prefix

\* Where the greedy .+ that starts after `from` characters ends: at the first
\* line terminator or at the end of s; -1 if it matches no character.
DotPlusEnd(s, from) ==
    LET stops == {k \in (from + 1)..Len(s) : s[k] = "\n"}
        end == IF stops = {} THEN Len(s)
               ELSE (CHOOSE k \in stops : \A j \in stops : k <= j) - 1
    IN IF end > from THEN end ELSE -1

\* The end index of the match of the source that starts at index i of s
\* (indices as in JavaScript, from 0), or -1 if there is none.
MatchEnd(source, s, i) ==
    CASE source = CharSource ->
            IF i < Len(s) /\ s[i + 1] = "a" THEN i + 1 ELSE -1
      [] source = UpperSource ->
            IF i = 0 /\ Len(s) >= 1 /\ \A k \in 1..Len(s) : s[k] \in UpperCase
            THEN Len(s) ELSE -1
      [] source = EmailSource ->
            IF i = 0 /\ IsEmail(s) THEN Len(s) ELSE -1
      [] source = UrlSource ->
            IF i # 0 THEN -1
            ELSE IF StartsWith(s, <<"h", "t", "t", "p", ":", "/", "/">>)
                 THEN DotPlusEnd(s, 7)
                 ELSE IF StartsWith(s, <<"h", "t", "t", "p", "s", ":", "/", "/">>)
                      THEN DotPlusEnd(s, 8)
                      ELSE -1
      [] OTHER -> -1

\* RegExp.prototype.test(s): whether it matches, and the RegExp object after
\* the call.  A global RegExp searches from its lastIndex and leaves the end
\* of the match (or 0 after a failure) in lastIndex; others search from 0 and
\* leave lastIndex alone.
RegExpTest(re, s) ==
    LET from == IF re.global THEN re.lastIndex ELSE 0
        starts == {i \in from..Len(s) : MatchEnd(re.source, s, i) # -1}
    IN IF starts = {}
       THEN [matched |-> FALSE,
             re |-> IF re.global THEN [re EXCEPT !.lastIndex = 0] ELSE re]
       ELSE LET i == CHOOSE k \in starts : \A j \in starts : k <= j
            IN [matched |-> TRUE,
                re |-> IF re.global
                       THEN [re EXCEPT !.lastIndex = MatchEnd(re.source, s, i)]
                       ELSE re]

(* ---------------------------- StringValidator --------------------------- *)

\* StringValidator.minLength and ArrayValidator.minLength
minLength(v, length) == [v EXCEPT !.minLengthValue = <<length>>]

\* StringValidator.maxLength and ArrayValidator.maxLength
maxLength(v, length) == [v EXCEPT !.maxLengthValue = <<length>>]

\* StringValidator.pattern
pattern(v, regex) == [v EXCEPT !.regexPattern = <<regex>>]

\* StringValidator.email: a new RegExp object from the literal.
email(v) ==
    [v EXCEPT !.regexPattern = <<RegExp(EmailSource, FALSE)>>,
              !.customMessage = <<MessageOr(v, "Invalid email format")>>]

\* StringValidator.url
url(v) ==
    [v EXCEPT !.regexPattern = <<RegExp(UrlSource, FALSE)>>,
              !.customMessage = <<MessageOr(v, "Invalid URL format")>>]

\* The errors of the length constraints of a string or an array of length n;
\* what is "String"/"characters" or "Array"/"items".
MinLengthErrors(v, n, path, message) ==
    IF IsSet(v.minLengthValue) /\ n < v.minLengthValue[1]
    THEN <<createError(v, path, message, "MIN_LENGTH")>>
    ELSE <<>>

MaxLengthErrors(v, n, path, message) ==
    IF IsSet(v.maxLengthValue) /\ n > v.maxLengthValue[1]
    THEN <<createError(v, path, message, "MAX_LENGTH")>>
    ELSE <<>>

\* StringValidator.validate: the result, and the validator after the call
\* (its RegExp object is the only thing the call can change).
StringValidate(v, value, path) ==
    LET optionalResult == handleOptional(v, value, path)
    IN IF optionalResult # <<>> THEN [result |-> optionalResult[1], v |-> v]
       ELSE IF TypeOf(value) # "string"
       THEN [result |-> Failure(<<createError(v, path, "Expected string", "INVALID_TYPE")>>),
             v |-> v]
       ELSE
         LET test == IF IsSet(v.regexPattern)
                     THEN RegExpTest(v.regexPattern[1], value.s)
                     ELSE [matched |-> TRUE, re |-> Undefined]
             errors ==
                 MinLengthErrors(v, Len(value.s), path,
                     "String must be at least " \o
                     ToString(IF IsSet(v.minLengthValue) THEN v.minLengthValue[1] ELSE 0)
                     \o " characters")
                 \o MaxLengthErrors(v, Len(value.s), path,
                     "String must be at most " \o
                     ToString(IF IsSet(v.maxLengthValue) THEN v.maxLengthValue[1] ELSE 0)
                     \o " characters")
                 \o (IF IsSet(v.regexPattern) /\ ~test.matched
                     THEN <<createError(v, path, "String does not match required pattern",
                                        "PATTERN_MISMATCH")>>
                     ELSE <<>>)
         IN [result |-> Result(errors = <<>>,
                               IF errors = <<>> THEN value ELSE Undefined,
                               errors),
             v |-> IF IsSet(v.regexPattern)
                   THEN [v EXCEPT !.regexPattern = <<test.re>>]
                   ELSE v]

(* ---------------------------- NumberValidator --------------------------- *)

\* NumberValidator.min
min(v, value) == [v EXCEPT !.minValue = <<value>>]

\* NumberValidator.max
max(v, value) == [v EXCEPT !.maxValue = <<value>>]

\* NumberValidator.int
int(v) == [v EXCEPT !.isInteger = <<TRUE>>]

\* NumberValidator.positive
positive(v) == [v EXCEPT !.minValue = <<Num(0, 0)>>]

\* NumberValidator.negative
negative(v) == [v EXCEPT !.maxValue = <<Num(0, 0)>>]

\* NumberValidator.validate
NumberValidate(v, value, path) ==
    LET optionalResult == handleOptional(v, value, path)
    IN IF optionalResult # <<>> THEN optionalResult[1]
       ELSE IF TypeOf(value) # "number" \/ value.t = "NaN"
       THEN Failure(<<createError(v, path, "Expected number", "INVALID_TYPE")>>)
       ELSE
         LET errors ==
                 (IF IsSet(v.minValue) /\ Less(value, v.minValue[1])
                  THEN <<createError(v, path,
                             "Number must be at least " \o NumToString(v.minValue[1]),
                             "MIN_VALUE")>>
                  ELSE <<>>)
                 \o (IF IsSet(v.maxValue) /\ Less(v.maxValue[1], value)
                     THEN <<createError(v, path,
                                "Number must be at most " \o NumToString(v.maxValue[1]),
                                "MAX_VALUE")>>
                     ELSE <<>>)
                 \o (IF IsSet(v.isInteger) /\ ~IsInteger(value)
                     THEN <<createError(v, path, "Number must be an integer", "NOT_INTEGER")>>
                     ELSE <<>>)
         IN Result(errors = <<>>, IF errors = <<>> THEN value ELSE Undefined, errors)

(* --------------------------- BooleanValidator --------------------------- *)

\* BooleanValidator.validate that returns the value with the type error.
BooleanValidate_DataOnFailure(v, value, path) ==
    LET optionalResult == handleOptional(v, value, path)
    IN IF optionalResult # <<>> THEN optionalResult[1]
       ELSE IF TypeOf(value) # "boolean"
       THEN Result(FALSE, value,
                   <<createError(v, path, "Expected boolean", "INVALID_TYPE")>>)
       ELSE Result(TRUE, value, <<>>)

\* BooleanValidator.validate
BooleanValidate(v, value, path) ==
    LET optionalResult == handleOptional(v, value, path)
    IN IF optionalResult # <<>> THEN optionalResult[1]
       ELSE IF TypeOf(value) # "boolean"
       THEN Failure(<<createError(v, path, "Expected boolean", "INVALID_TYPE")>>)
       ELSE Result(TRUE, value, <<>>)

(* --------------------------- literal validator -------------------------- *)

\* The validate of the anonymous class of Schema.literal.
LiteralValidate(v, input, path) ==
    LET optionalResult == handleOptional(v, input, path)
    IN IF optionalResult # <<>> THEN optionalResult[1]
       ELSE IF ~StrictEquals(input, v.literal)
       THEN Failure(<<createError(v, path,
                          "Expected literal value: " \o TemplateString(v.literal),
                          "LITERAL_MISMATCH")>>)
       ELSE Result(TRUE, v.literal, <<>>)

(* --------------------------- CurrencyValidator -------------------------- *)

\* CURRENCY_CONFIGS
CURRENCY_CONFIGS ==
    [USD |-> [symbol |-> <<"$">>, code |-> <<"U", "S", "D">>,
              symbolPlacement |-> "before", decimalSeparator |-> ".",
              thousandsSeparator |-> ",", decimalPlaces |-> 2],
     GBP |-> [symbol |-> <<"£">>, code |-> <<"G", "B", "P">>,
              symbolPlacement |-> "before", decimalSeparator |-> ".",
              thousandsSeparator |-> ",", decimalPlaces |-> 2],
     EUR |-> [symbol |-> <<"€">>, code |-> <<"E", "U", "R">>,
              symbolPlacement |-> "before", decimalSeparator |-> ",",
              thousandsSeparator |-> ".", decimalPlaces |-> 2],
     RUB |-> [symbol |-> <<"₽">>, code |-> <<"R", "U", "B">>,
              symbolPlacement |-> "after", decimalSeparator |-> ".",
              thousandsSeparator |-> " ", decimalPlaces |-> 2]]

\* CurrencyValidator.usd
usd(v) == [v EXCEPT !.currencyFormat = <<CURRENCY_CONFIGS.USD>>]

\* CurrencyValidator.gbp
gbp(v) == [v EXCEPT !.currencyFormat = <<CURRENCY_CONFIGS.GBP>>]

\* CurrencyValidator.eur
eur(v) == [v EXCEPT !.currencyFormat = <<CURRENCY_CONFIGS.EUR>>]

\* CurrencyValidator.rub
rub(v) == [v EXCEPT !.currencyFormat = <<CURRENCY_CONFIGS.RUB>>]

\* CurrencyValidator.min
minAmount(v, amount) == [v EXCEPT !.minAmount = <<amount>>]

\* CurrencyValidator.max
maxAmount(v, amount) == [v EXCEPT !.maxAmount = <<amount>>]

\* CurrencyValidator.positive
positiveAmount(v) == [v EXCEPT !.minAmount = <<Num(0, 0)>>]

\* CurrencyValidator.allowNegativeAmounts
allowNegativeAmounts(v) == [v EXCEPT !.allowNegative = TRUE]

\* CurrencyValidator.range
range(v, lo, hi) == [v EXCEPT !.minAmount = <<lo>>, !.maxAmount = <<hi>>]

RECURSIVE TrimStart(_)
TrimStart(s) ==
    IF s # <<>> /\ Head(s) \in Whitespace THEN TrimStart(Tail(s)) ELSE s

RECURSIVE TrimEnd(_)
TrimEnd(s) ==
    IF s # <<>> /\ s[Len(s)] \in Whitespace
    THEN TrimEnd(SubSeq(s, 1, Len(s) - 1))
    ELSE s

\* String.prototype.trim
Trim(s) == TrimEnd(TrimStart(s))

RECURSIVE CollapseWhitespace(_)
\* s.replace(/\s+/g, ' ')
CollapseWhitespace(s) ==
    IF s = <<>> THEN <<>>
    ELSE IF Head(s) \in Whitespace
         THEN <<" ">> \o CollapseWhitespace(TrimStart(s))
         ELSE <<Head(s)>> \o CollapseWhitespace(Tail(s))

\* String.prototype.endsWith
EndsWith(s, suffix) ==
    /\ Len(suffix) <= Len(s)
    /\ SubSeq(s, Len(s) - Len(suffix) + 1, Len(s)) = suffix

\* s.substring(from), for 0 <= from
SubstringFrom(s, from) == SubSeq(s, from + 1, Len(s))

\* s.substring(0, to)
SubstringTo(s, to) == SubSeq(s, 1, IF to < 0 THEN 0 ELSE to)

\* s.replace(new RegExp('\\' + ch, 'g'), '')
RemoveAll(s, ch) == SelectSeq(s, LAMBDA c : c # ch)

\* s.lastIndexOf(ch): from 0, or -1
LastIndexOf(s, ch) ==
    LET at == {k \in 1..Len(s) : s[k] = ch}
    IN IF at = {} THEN -1 ELSE (CHOOSE k \in at : \A j \in at : j <= k) - 1

Digits == {"0", "1", "2", "3", "4", "5", "6", "7", "8", "9"}

DigitValue(c) == CHOOSE n \in 0..9 : ToString(n) = c

RECURSIVE DigitsValue(_)
\* The number a sequence of digits denotes (0 for none).
DigitsValue(s) ==
    IF s = <<>> THEN 0
    ELSE 10 * DigitsValue(SubSeq(s, 1, Len(s) - 1)) + DigitValue(s[Len(s)])

RECURSIVE DigitPrefix(_)
\* The longest prefix of s made of digits.
DigitPrefix(s) ==
    IF s # <<>> /\ Head(s) \in Digits THEN <<Head(s)>> \o DigitPrefix(Tail(s)) ELSE <<>>

\* parseFloat(s), <<>> for NaN: leading white space, a sign, then the
\* longest prefix that is a decimal literal; what follows it is ignored.
\* (Exponents and Infinity are not written with the characters of the
\* modelled strings.)
ParseFloat(s) ==
    With(TrimStart(s), LAMBDA t :
    With(t # <<>> /\ Head(t) \in {"-", "+"}, LAMBDA signed :
    With(IF signed THEN Tail(t) ELSE t, LAMBDA body :
    With(DigitPrefix(body), LAMBDA whole :
    With(SubstringFrom(body, Len(whole)), LAMBDA rest :
    With(IF rest # <<>> /\ Head(rest) = "." THEN DigitPrefix(Tail(rest)) ELSE <<>>,
         LAMBDA fraction :
    With(Num(DigitsValue(whole \o fraction), Len(fraction)), LAMBDA magnitude :
         IF whole = <<>> /\ fraction = <<>> THEN <<>>
         ELSE IF signed /\ Head(t) = "-" THEN <<Negate(magnitude)>>
         ELSE <<magnitude>>)))))))

\* /^\d{1,2}$/.test(s)
OneOrTwoDigits(s) == Len(s) \in {1, 2} /\ \A k \in 1..Len(s) : s[k] \in Digits

\* CurrencyValidator.parseAmount: <<>> is null.
parseAmount(numericStr, format) ==
    With(StartsWith(numericStr, <<"-">>), LAMBDA isNegative :
    With(IF isNegative THEN SubstringFrom(numericStr, 1) ELSE numericStr, LAMBDA unsigned :
    With(IF format.thousandsSeparator # ""
         THEN RemoveAll(unsigned, format.thousandsSeparator)
         ELSE unsigned, LAMBDA grouped :
    With(LastIndexOf(grouped, ","), LAMBDA lastCommaIndex :
    With(SubstringFrom(grouped, lastCommaIndex + 1), LAMBDA afterComma :
    With(ParseFloat(IF /\ format.decimalSeparator = ","
                       /\ lastCommaIndex # -1
                       /\ OneOrTwoDigits(afterComma)
                    THEN SubstringTo(grouped, lastCommaIndex) \o <<".">> \o afterComma
                    ELSE grouped), LAMBDA amount :
         IF amount = <<>> THEN <<>>
         ELSE IF isNegative THEN <<Negate(amount[1])>>
         ELSE amount))))))

\* A CurrencyValue object.
CurrencyValue(amount, currency, originalString) ==
    Obj([k \in {"amount", "currency", "originalString"} |->
            CASE k = "amount" -> amount
              [] k = "currency" -> Str(currency)
              [] k = "originalString" -> Str(originalString)])

\* CurrencyValidator.parseCurrency: [success, value, error].
parseCurrency(format, input) ==
    With(Trim(CollapseWhitespace(input)), LAMBDA cleanInput :
    With(format.symbolPlacement = "before", LAMBDA before :
    With(IF before THEN StartsWith(cleanInput, format.symbol)
         ELSE EndsWith(cleanInput, format.symbol), LAMBDA hasSymbol :
    With(/\ ~hasSymbol
         /\ IF before THEN StartsWith(cleanInput, format.code \o <<" ">>)
            ELSE EndsWith(cleanInput, <<" ">> \o format.code), LAMBDA hasCurrencyCode :
    With(IF hasSymbol THEN Len(format.symbol) ELSE Len(format.code) + 1, LAMBDA strip :
    With(IF ~hasSymbol /\ ~hasCurrencyCode THEN <<>>
         ELSE parseAmount(IF before THEN Trim(SubstringFrom(cleanInput, strip))
                          ELSE Trim(SubstringTo(cleanInput, Len(cleanInput) - strip)),
                          format), LAMBDA amount :
         IF ~hasSymbol /\ ~hasCurrencyCode
         THEN [success |-> FALSE, value |-> Undefined,
               error |-> (IF before THEN "Currency must start with "
                          ELSE "Currency must end with ")
                         \o JoinChars(format.symbol) \o " or " \o JoinChars(format.code)]
         ELSE IF amount = <<>>
         THEN [success |-> FALSE, value |-> Undefined, error |-> "Invalid numeric format"]
         ELSE [success |-> TRUE,
               value |-> CurrencyValue(amount[1],
                             IF hasSymbol THEN format.symbol ELSE format.code, input),
               error |-> ""]))))))

\* The errors of the amount checks of CurrencyValidator.validate.
AmountErrors(v, amount, path) ==
    (IF ~v.allowNegative /\ Less(amount, Num(0, 0))
     THEN <<createError(v, path, "Currency amount cannot be negative", "NEGATIVE_AMOUNT")>>
     ELSE <<>>)
    \o (IF IsSet(v.minAmount) /\ Less(amount, v.minAmount[1])
        THEN <<createError(v, path,
                   "Amount must be at least " \o JoinChars(v.currencyFormat[1].symbol)
                   \o NumToString(v.minAmount[1]),
                   "MIN_AMOUNT")>>
        ELSE <<>>)
    \o (IF IsSet(v.maxAmount) /\ Less(v.maxAmount[1], amount)
        THEN <<createError(v, path,
                   "Amount must be at most " \o JoinChars(v.currencyFormat[1].symbol)
                   \o NumToString(v.maxAmount[1]),
                   "MAX_AMOUNT")>>
        ELSE <<>>)

\* CurrencyValidator.validate with the format test before the type test.
CurrencyValidate_FormatFirst(v, value, path) ==
    With(handleOptional(v, value, path), LAMBDA optionalResult :
         IF optionalResult # <<>> THEN optionalResult[1]
         ELSE IF ~IsSet(v.currencyFormat)
         THEN Failure(<<createError(v, path, "Currency format not specified",
                                    "MISSING_FORMAT")>>)
         ELSE IF TypeOf(value) # "string"
         THEN Failure(<<createError(v, path, "Expected currency string", "INVALID_TYPE")>>)
         ELSE
           With(parseCurrency(v.currencyFormat[1], Trim(value.s)), LAMBDA parseResult :
                IF ~parseResult.success
                THEN Failure(<<createError(v, path, parseResult.error,
                                           "INVALID_CURRENCY_FORMAT")>>)
                ELSE
                  With(AmountErrors(v, parseResult.value.props["amount"], path),
                       LAMBDA errors :
                       Result(errors = <<>>,
                              IF errors = <<>> THEN parseResult.value ELSE Undefined,
                              errors))))

\* CurrencyValidator.validate
CurrencyValidate(v, value, path) ==
    With(handleOptional(v, value, path), LAMBDA optionalResult :
         IF optionalResult # <<>> THEN optionalResult[1]
         ELSE IF TypeOf(value) # "string"
         THEN Failure(<<createError(v, path, "Expected currency string", "INVALID_TYPE")>>)
         ELSE IF ~IsSet(v.currencyFormat)
         THEN Failure(<<createError(v, path, "Currency format not specified",
                                    "MISSING_FORMAT")>>)
         ELSE
           With(parseCurrency(v.currencyFormat[1], Trim(value.s)), LAMBDA parseResult :
                IF ~parseResult.success
                THEN Failure(<<createError(v, path,
                                   IF parseResult.error # "" THEN parseResult.error
                                   ELSE "Invalid currency format",
                                   "INVALID_CURRENCY_FORMAT")>>)
                ELSE
                  With(AmountErrors(v, parseResult.value.props["amount"], path),
                       LAMBDA errors :
                       Result(errors = <<>>,
                              IF errors = <<>> THEN parseResult.value ELSE Undefined,
                              errors))))

(* ----------------------------- DateValidator ---------------------------- *)

\* A time value: the day counted from 1970-01-01 and the milliseconds within
\* that day.  The time value of an invalid Date is NaN.  The local time zone
\* is UTC.
Time(day, ms) == [t |-> "time", day |-> day, ms |-> ms]

\* A Date object with the given time value.
DateOf(time) == [t |-> "date", time |-> time]

\* a < b with the time value of an invalid Date counted as later than
\* every time.
Before_InvalidIsLatest(a, b) ==
    /\ a.t = "time"
    /\ (b.t = "NaN" \/ a.day < b.day \/ (a.day = b.day /\ a.ms < b.ms))

\* a < b for the time values of two Dates; false when either is NaN.
Before(a, b) ==
    /\ a.t = "time"
    /\ b.t = "time"
    /\ (a.day < b.day \/ (a.day = b.day /\ a.ms < b.ms))

\* The day number of a date of the Gregorian calendar (month from 1).
DaysFromCivil(year, month, day) ==
    LET y == IF month <= 2 THEN year - 1 ELSE year
        era == y \div 400
        yoe == y - era * 400
        mp == IF month > 2 THEN month - 3 ELSE month + 9
        doy == (153 * mp + 2) \div 5 + day - 1
        doe == yoe * 365 + yoe \div 4 - yoe \div 100 + doy
    IN era * 146097 + doe - 719468

\* The date of the Gregorian calendar of a day number.
CivilFromDays(days) ==
    LET z == days + 719468
        era == z \div 146097
        doe == z - era * 146097
        yoe == (doe - doe \div 1460 + doe \div 36524 - doe \div 146096) \div 365
        doy == doe - (365 * yoe + yoe \div 4 - yoe \div 100)
        mp == (5 * doy + 2) \div 153
        month == IF mp < 10 THEN mp + 3 ELSE mp - 9
    IN [year |-> yoe + era * 400 + (IF month <= 2 THEN 1 ELSE 0),
        month |-> month,
        day |-> doy - (153 * mp + 2) \div 5 + 1]

\* The number of days of a month.
DaysInMonth(year, month) ==
    DaysFromCivil(IF month = 12 THEN year + 1 ELSE year,
                  IF month = 12 THEN 1 ELSE month + 1, 1)
    - DaysFromCivil(year, month, 1)

\* Date.prototype.toISOString for a valid time value.
ToISOString(time) ==
    LET civil == CivilFromDays(time.day)
        year == IF civil.year \in 0..9999 THEN PadZeros(civil.year, 4)
                ELSE IF civil.year < 0 THEN "-" \o PadZeros(0 - civil.year, 6)
                ELSE "+" \o PadZeros(civil.year, 6)
    IN year \o "-" \o PadZeros(civil.month, 2) \o "-" \o PadZeros(civil.day, 2)
       \o "T" \o PadZeros(time.ms \div 3600000, 2)
       \o ":" \o PadZeros((time.ms \div 60000) % 60, 2)
       \o ":" \o PadZeros((time.ms \div 1000) % 60, 2)
       \o "." \o PadZeros(time.ms % 1000, 3) \o "Z"

\* new Date(year, month, day) for three numbers (<<>> is NaN, the month
\* counts from 0): a year from 0 to 99 is a year of the 1900s, and months
\* and days outside their range roll over.
NewDate(year, month, day) ==
    IF year = <<>> \/ month = <<>> \/ day = <<>> THEN DateOf(NaN)
    ELSE LET full == IF year[1] \in 0..99 THEN 1900 + year[1] ELSE year[1]
             months == full * 12 + month[1]
         IN DateOf(Time(DaysFromCivil(months \div 12, (months % 12) + 1, 1) + day[1] - 1, 0))

\* new Date(value) for a number: the integer part of value as milliseconds.
DateFromNumber(value) ==
    IF value.t = "NaN" THEN DateOf(NaN)
    ELSE LET ms == IF value.m >= 0 THEN value.m \div Pow10(value.e)
                   ELSE 0 - ((0 - value.m) \div Pow10(value.e))
         IN DateOf(Time(ms \div 86400000, ms % 86400000))

\* The match of a regular expression without the $ at its end.
MatchesShape_Prefix(shape, s) ==
    /\ Len(s) >= Len(shape)
    /\ \A k \in 1..Len(shape) :
           IF shape[k] = "\\d" THEN s[k] \in Digits ELSE s[k] = shape[k]

\* A regular expression ^...$ without alternatives is the sequence of what
\* matches each character: "\\d" or the character itself.
MatchesShape(shape, s) ==
    /\ Len(s) = Len(shape)
    /\ \A k \in 1..Len(s) : IF shape[k] = "\\d" THEN s[k] \in Digits ELSE s[k] = shape[k]

\* regex.test(s) for a regular expression given as the set of the shapes it
\* matches.
ShapeTest(regex, s) == \E shape \in regex : MatchesShape(shape, s)

\* \d{n}
DigitsShape(n) == [k \in 1..n |-> "\\d"]

\* ^\d{4}-\d{2}-\d{2}$
IsoDateShape == DigitsShape(4) \o <<"-">> \o DigitsShape(2) \o <<"-">> \o DigitsShape(2)

\* ^\d{4}-\d{2}-\d{2}T\d{2}:\d{2}:\d{2}$
IsoTimeShape ==
    IsoDateShape \o <<"T">> \o DigitsShape(2) \o <<":">> \o DigitsShape(2)
    \o <<":">> \o DigitsShape(2)

\* /^\d{4}-\d{2}-\d{2}T\d{2}:\d{2}:\d{2}(\.\d{3})?Z?$/
IsoRegex ==
    {IsoTimeShape \o millis \o zone :
        millis \in {<<>>, <<".">> \o DigitsShape(3)}, zone \in {<<>>, <<"Z">>}}

\* new Date(s) for a string s.  A date or a date and a time in the ISO
\* format, with every field in its range, has the time value the format
\* gives it; any other string has the value the engine gives it.
DateParse(s) ==
    LET year == DigitsValue(SubSeq(s, 1, 4))
        month == DigitsValue(SubSeq(s, 6, 7))
        day == DigitsValue(SubSeq(s, 9, 10))
        hours == DigitsValue(SubSeq(s, 12, 13))
        minutes == DigitsValue(SubSeq(s, 15, 16))
        seconds == DigitsValue(SubSeq(s, 18, 19))
        millis == IF Len(s) >= 23 THEN DigitsValue(SubSeq(s, 21, 23)) ELSE 0
        dateInRange == month \in 1..12 /\ day \in 1..DaysInMonth(year, month)
        timeInRange == hours <= 23 /\ minutes <= 59 /\ seconds <= 59
    IN IF MatchesShape(IsoDateShape, s) /\ dateInRange
       THEN DateOf(Time(DaysFromCivil(year, month, day), 0))
       ELSE IF ShapeTest(IsoRegex, s) /\ dateInRange /\ timeInRange
       THEN DateOf(Time(DaysFromCivil(year, month, day),
                        ((hours * 60 + minutes) * 60 + seconds) * 1000 + millis))
       ELSE DateOf(legacyDate)

RECURSIVE Split(_, _)
\* s.split(separator) for a separator of one character.
Split(s, separator) ==
    IF \A k \in 1..Len(s) : s[k] # separator THEN <<s>>
    ELSE LET i == CHOOSE k \in 1..Len(s) :
                      s[k] = separator /\ \A j \in 1..(k - 1) : s[j] # separator
         IN <<SubSeq(s, 1, i - 1)>> \o Split(SubSeq(s, i + 1, Len(s)), separator)

\* parseInt(parts[i], 10), <<>> for NaN: white space, a sign, then the
\* longest prefix of digits; a part that is missing is undefined.
ParseInt(parts, i) ==
    IF i > Len(parts) THEN <<>>
    ELSE LET t == TrimStart(parts[i])
             signed == t # <<>> /\ Head(t) \in {"-", "+"}
             digits == DigitPrefix(IF signed THEN Tail(t) ELSE t)
         IN IF digits = <<>> THEN <<>>
            ELSE IF signed /\ Head(t) = "-" THEN <<0 - DigitsValue(digits)>>
            ELSE <<DigitsValue(digits)>>

\* n - 1 for the month; NaN - 1 is NaN.
MonthIndex(n) == IF n = <<>> THEN <<>> ELSE <<n[1] - 1>>

\* The four-digit year of a two-digit year: 00-29 are 2000-2029, 30-99 are
\* 1930-1999.
FullYear(n) ==
    IF n = <<>> THEN <<>>
    ELSE IF n[1] <= 29 THEN <<n[1] + 2000>>
    ELSE IF n[1] <= 99 THEN <<n[1] + 1900>>
    ELSE n

\* DateValidator.parseDDMMYYYY
parseDDMMYYYY(dateString, separator) ==
    LET parts == Split(dateString, separator)
    IN NewDate(ParseInt(parts, 3), MonthIndex(ParseInt(parts, 2)), ParseInt(parts, 1))

\* DateValidator.parseMMDDYYYY
parseMMDDYYYY(dateString, separator) ==
    LET parts == Split(dateString, separator)
    IN NewDate(ParseInt(parts, 3), MonthIndex(ParseInt(parts, 1)), ParseInt(parts, 2))

\* DateValidator.parseYYYYMMDD
parseYYYYMMDD(dateString, separator) ==
    LET parts == Split(dateString, separator)
    IN NewDate(ParseInt(parts, 1), MonthIndex(ParseInt(parts, 2)), ParseInt(parts, 3))

\* DateValidator.parseDDMMYY
parseDDMMYY(dateString, separator) ==
    LET parts == Split(dateString, separator)
    IN NewDate(FullYear(ParseInt(parts, 3)), MonthIndex(ParseInt(parts, 2)),
               ParseInt(parts, 1))

\* DateValidator.parseMMDDYY
parseMMDDYY(dateString, separator) ==
    LET parts == Split(dateString, separator)
    IN NewDate(FullYear(ParseInt(parts, 3)), MonthIndex(ParseInt(parts, 1)),
               ParseInt(parts, 2))

\* A format pattern is the sequence of its fields and separators, such as
\* <<"DD", "/", "MM", "/", "YYYY">>; toLowerCase of one of them.
ToLowerCase(token) ==
    CASE token = "DD" -> "dd"
      [] token = "MM" -> "mm"
      [] token = "YYYY" -> "yyyy"
      [] token = "YY" -> "yy"
      [] token = "ISO8601" -> "iso8601"
      [] OTHER -> token

\* pattern.toLowerCase()
LowerCasePattern(tokens) == JoinChars([k \in 1..Len(tokens) |-> ToLowerCase(tokens[k])])

\* DateValidator.parseFormattedDate
parseFormattedDate(v, dateString) ==
    IF ~IsSet(v.formatPattern) THEN DateParse(dateString)
    ELSE LET format == LowerCasePattern(v.formatPattern[1])
         IN CASE format = "dd/mm/yyyy" -> parseDDMMYYYY(dateString, "/")
              [] format = "dd-mm-yyyy" -> parseDDMMYYYY(dateString, "-")
              [] format = "dd.mm.yyyy" -> parseDDMMYYYY(dateString, ".")
              [] format = "mm/dd/yyyy" -> parseMMDDYYYY(dateString, "/")
              [] format = "mm-dd-yyyy" -> parseMMDDYYYY(dateString, "-")
              [] format = "mm.dd.yyyy" -> parseMMDDYYYY(dateString, ".")
              [] format = "yyyy/mm/dd" -> parseYYYYMMDD(dateString, "/")
              [] format = "yyyy-mm-dd" -> parseYYYYMMDD(dateString, "-")
              [] format = "yyyy.mm.dd" -> parseYYYYMMDD(dateString, ".")
              [] format = "dd/mm/yy" -> parseDDMMYY(dateString, "/")
              [] format = "dd-mm-yy" -> parseDDMMYY(dateString, "-")
              [] format = "mm/dd/yy" -> parseMMDDYY(dateString, "/")
              [] format = "mm-dd-yy" -> parseMMDDYY(dateString, "-")
              [] format = "iso8601" -> DateParse(dateString)
              [] OTHER -> DateParse(dateString)

\* DateValidator.min
minDate(v, date) == [v EXCEPT !.minDate = <<date>>]

\* DateValidator.max
maxDate(v, date) == [v EXCEPT !.maxDate = <<date>>]

\* DateValidator.past, when new Date() is now
past(v, now) == [v EXCEPT !.maxDate = <<now>>]

\* DateValidator.future, when new Date() is now
future(v, now) == [v EXCEPT !.minDate = <<now>>]

\* What the replace calls of format turn one field or separator of the
\* lower-case pattern into: dd, mm and yy into \d{2}, yyyy into \d{4}, and
\* a separator among / . ( ) - into itself, escaped.
FormatShape(token) ==
    CASE token \in {"dd", "mm", "yy"} -> DigitsShape(2)
      [] token = "yyyy" -> DigitsShape(4)
      [] OTHER -> <<token>>

RECURSIVE PatternShape(_)
\* The regular expression of a pattern: ^, the shapes of its parts, $.
PatternShape(tokens) ==
    IF tokens = <<>> THEN <<>>
    ELSE FormatShape(ToLowerCase(Head(tokens))) \o PatternShape(Tail(tokens))

\* DateValidator.format
format(v, tokens) ==
    [v EXCEPT !.formatPattern = <<tokens>>, !.formatRegex = <<{PatternShape(tokens)}>>]

\* DateValidator.ddmmyyyy
ddmmyyyy(v, separator) == format(v, <<"DD", separator, "MM", separator, "YYYY">>)

\* DateValidator.mmddyyyy
mmddyyyy(v, separator) == format(v, <<"MM", separator, "DD", separator, "YYYY">>)

\* DateValidator.yyyymmdd
yyyymmdd(v, separator) == format(v, <<"YYYY", separator, "MM", separator, "DD">>)

\* DateValidator.ddmmyy
ddmmyy(v, separator) == format(v, <<"DD", separator, "MM", separator, "YY">>)

\* DateValidator.mmddyy
mmddyy(v, separator) == format(v, <<"MM", separator, "DD", separator, "YY">>)

\* DateValidator.iso8601
iso8601(v) == [v EXCEPT !.formatPattern = <<<<"ISO8601">>>>, !.formatRegex = <<IsoRegex>>]

\* A bound whose toISOString() is called for a message is an invalid Date:
\* toISOString throws RangeError.
DateRangeThrows(v, date) ==
    \/ /\ IsSet(v.minDate)
       /\ Before(date.time, v.minDate[1].time)
       /\ v.minDate[1].time = NaN
    \/ /\ IsSet(v.maxDate)
       /\ Before(v.maxDate[1].time, date.time)
       /\ v.maxDate[1].time = NaN

\* The errors of the range checks of DateValidator.validate.
DateRangeErrors(v, date, path) ==
    (IF IsSet(v.minDate) /\ Before(date.time, v.minDate[1].time)
     THEN <<createError(v, path, "Date must be after " \o ToISOString(v.minDate[1].time),
                        "MIN_DATE")>>
     ELSE <<>>)
    \o (IF IsSet(v.maxDate) /\ Before(v.maxDate[1].time, date.time)
        THEN <<createError(v, path, "Date must be before " \o ToISOString(v.maxDate[1].time),
                           "MAX_DATE")>>
        ELSE <<>>)

\* DateValidator.validate
DateValidate(v, value, path) ==
    With(handleOptional(v, value, path), LAMBDA optionalResult :
    With(IsSet(v.formatPattern) /\ IsSet(v.formatRegex), LAMBDA formatted :
         IF optionalResult # <<>> THEN optionalResult[1]
         ELSE IF value.t # "date" /\ TypeOf(value) \notin {"string", "number"}
         THEN Failure(<<createError(v, path, "Expected date", "INVALID_TYPE")>>)
         ELSE IF /\ TypeOf(value) = "string"
                 /\ formatted
                 /\ ~ShapeTest(v.formatRegex[1], value.s)
         THEN Failure(<<createError(v, path,
                            "Date must be in format " \o JoinChars(v.formatPattern[1]),
                            "INVALID_DATE_FORMAT")>>)
         ELSE
           With(CASE value.t = "date" -> value
                  [] TypeOf(value) = "string" ->
                       IF formatted THEN parseFormattedDate(v, value.s)
                       ELSE DateParse(value.s)
                  [] OTHER -> DateFromNumber(value), LAMBDA date :
                IF date.time = NaN
                THEN Failure(<<createError(v, path, "Invalid date", "INVALID_DATE")>>)
                ELSE IF DateRangeThrows(v, date) THEN Thrown("RangeError")
                ELSE
                  With(DateRangeErrors(v, date, path), LAMBDA errors :
                       Result(errors = <<>>,
                              IF errors = <<>> THEN date ELSE Undefined,
                              errors)))))

(* ------------------- the validator tree: recursion ---------------------- *)

\* Validators are objects on the heap h, a sequence; a validator is named
\* by its index.  Every validate returns [result, heap]: the
\* ValidationResult and the heap after the call.
RECURSIVE Validate(_, _, _, _)
RECURSIVE ArrayItems(_, _, _, _, _, _, _)
RECURSIVE ObjectFields(_, _, _, _, _, _, _)
RECURSIVE UnionAlternatives(_, _, _, _, _)

(* ---------------------------- ArrayValidator ---------------------------- *)

\* ArrayValidator.nonEmpty
nonEmpty(v) == [v EXCEPT !.minLengthValue = <<1>>]

\* `${path}[${i}]`
ItemPath(path, i) == path \o "[" \o ToString(i) \o "]"

\* The loop of ArrayValidator.validate from index i (from 0) on, and its
\* return statement.
ArrayItems(h, id, items, path, i, errors, validatedItems) ==
    IF i >= Len(items)
    THEN [result |-> Result(errors = <<>>,
                            IF errors = <<>> THEN Arr(validatedItems) ELSE Undefined,
                            errors),
          heap |-> h]
    ELSE LET item == Validate(h, h[id].itemValidator, items[i + 1], ItemPath(path, i))
             itemResult == item.result
         IN IF IsThrown(itemResult) THEN item
            ELSE ArrayItems(item.heap, id, items, path, i + 1,
                     IF ~itemResult.success THEN errors \o itemResult.errors ELSE errors,
                     IF itemResult.success /\ itemResult.data # Undefined
                     THEN Append(validatedItems, itemResult.data)
                     ELSE validatedItems)

\* ArrayValidator.validate
ArrayValidate(h, id, value, path) ==
    LET v == h[id]
        optionalResult == handleOptional(v, value, path)
    IN IF optionalResult # <<>> THEN [result |-> optionalResult[1], heap |-> h]
       ELSE IF value.t # "array"
       THEN [result |-> Failure(<<createError(v, path, "Expected array", "INVALID_TYPE")>>),
             heap |-> h]
       ELSE ArrayItems(h, id, value.items, path, 0,
                MinLengthErrors(v, Len(value.items), path,
                    "Array must have at least " \o
                    ToString(IF IsSet(v.minLengthValue) THEN v.minLengthValue[1] ELSE 0)
                    \o " items")
                \o MaxLengthErrors(v, Len(value.items), path,
                    "Array must have at most " \o
                    ToString(IF IsSet(v.maxLengthValue) THEN v.maxLengthValue[1] ELSE 0)
                    \o " items"),
                <<>>)

(* ---------------------------- ObjectValidator --------------------------- *)

\* Keys "0" .. ToString(MaxIndexKey) are the array-index keys of the model.
MaxIndexKey == 9

\* The number a key is the canonical decimal form of, or -1: such integer
\* keys come first, in ascending order, when a JavaScript object is
\* enumerated.
IndexOf(key) ==
    IF \E n \in 0..MaxIndexKey : ToString(n) = key
    THEN CHOOSE n \in 0..MaxIndexKey : ToString(n) = key
    ELSE -1

RECURSIVE OrderByIndex(_, _)
\* The entries of schema at the positions P, in ascending order of their
\* integer keys.
OrderByIndex(schema, P) ==
    IF P = {} THEN <<>>
    ELSE LET first == CHOOSE p \in P :
                          \A q \in P : IndexOf(schema[p][1]) <= IndexOf(schema[q][1])
         IN <<schema[first]>> \o OrderByIndex(schema, P \ {first})

\* Object.entries(this.schema), for a schema object whose properties were
\* created in the order of the sequence schema of <<key, validator>> pairs:
\* integer keys in ascending order, then the other keys in creation order.
ObjectEntries(schema) ==
    OrderByIndex(schema, {p \in 1..Len(schema) : IndexOf(schema[p][1]) >= 0})
    \o SelectSeq(schema, LAMBDA e : IndexOf(e[1]) < 0)

\* `${path}.${key}` whatever the path.
FieldPath_AlwaysDot(path, key) == path \o "." \o key

\* path ? `${path}.${key}` : key
FieldPath(path, key) == IF path # "" THEN path \o "." \o key ELSE key

\* result[key] = data
SetProp(props, key, data) ==
    [k \in DOMAIN props \cup {key} |-> IF k = key THEN data ELSE props[k]]

\* The loop of ObjectValidator.validate over entries from position i on, and
\* its return statement.
ObjectFields(h, entries, obj, path, i, errors, props) ==
    IF i > Len(entries)
    THEN [result |-> Result(errors = <<>>,
                            IF errors = <<>> THEN Obj(props) ELSE Undefined,
                            errors),
          heap |-> h]
    ELSE LET key == entries[i][1]
             field == Validate(h, entries[i][2], GetProp(obj, key), FieldPath(path, key))
             fieldResult == field.result
         IN IF IsThrown(fieldResult) THEN field
            ELSE ObjectFields(field.heap, entries, obj, path, i + 1,
                     IF ~fieldResult.success THEN errors \o fieldResult.errors ELSE errors,
                     IF fieldResult.success /\ fieldResult.data # Undefined
                     THEN SetProp(props, key, fieldResult.data)
                     ELSE props)

\* ObjectValidator.validate that starts its result from the input's properties.
ObjectValidate_CopiesInput(h, id, value, path) ==
    LET v == h[id]
        optionalResult == handleOptional(v, value, path)
    IN IF optionalResult # <<>> THEN [result |-> optionalResult[1], heap |-> h]
       ELSE IF TypeOf(value) # "object" \/ value.t = "null" \/ value.t = "array"
       THEN [result |-> Failure(<<createError(v, path, "Expected object", "INVALID_TYPE")>>),
             heap |-> h]
       ELSE ObjectFields(h, ObjectEntries(v.schema), value, path, 1, <<>>,
                         IF value.t = "object" THEN value.props ELSE EmptyProps)

\* ObjectValidator.validate without the Array.isArray test.
ObjectValidate_ArrayIsObject(h, id, value, path) ==
    LET v == h[id]
        optionalResult == handleOptional(v, value, path)
    IN IF optionalResult # <<>> THEN [result |-> optionalResult[1], heap |-> h]
       ELSE IF TypeOf(value) # "object" \/ value.t = "null"
       THEN [result |-> Failure(<<createError(v, path, "Expected object", "INVALID_TYPE")>>),
             heap |-> h]
       ELSE ObjectFields(h, ObjectEntries(v.schema),
                         IF value.t = "array" THEN Obj(EmptyProps) ELSE value,
                         path, 1, <<>>, EmptyProps)

\* ObjectValidator.validate
ObjectValidate(h, id, value, path) ==
    LET v == h[id]
        optionalResult == handleOptional(v, value, path)
    IN IF optionalResult # <<>> THEN [result |-> optionalResult[1], heap |-> h]
       ELSE IF TypeOf(value) # "object" \/ value.t = "null" \/ value.t = "array"
       THEN [result |-> Failure(<<createError(v, path, "Expected object", "INVALID_TYPE")>>),
             heap |-> h]
       ELSE ObjectFields(h, ObjectEntries(v.schema), value, path, 1, <<>>, EmptyProps)

(* ----------------------------- union validator -------------------------- *)

RECURSIVE UnionCollect(_, _, _, _, _, _)
\* The union loop that returns the collected errors of the alternatives.
UnionCollect(h, id, value, path, i, errors) ==
    IF i > Len(h[id].validators)
    THEN [result |-> Failure(errors), heap |-> h]
    ELSE LET alternative == Validate(h, h[id].validators[i], value, path)
         IN IF alternative.result.success
            THEN alternative
            ELSE UnionCollect(alternative.heap, id, value, path, i + 1,
                              errors \o alternative.result.errors)

UnionAlternatives_AllErrors(h, id, value, path, i) ==
    UnionCollect(h, id, value, path, i, <<>>)

RECURSIVE UnionAlternatives_LastWins(_, _, _, _, _)
\* The union loop run from the last alternative to the first.
UnionAlternatives_LastWins(h, id, value, path, i) ==
    IF i > Len(h[id].validators)
    THEN [result |-> Failure(<<createError(h[id], path,
                                   "Value does not match any of the expected types",
                                   "UNION_MISMATCH")>>),
          heap |-> h]
    ELSE LET alternative ==
                 Validate(h, h[id].validators[Len(h[id].validators) + 1 - i], value, path)
         IN IF alternative.result.success
            THEN alternative
            ELSE UnionAlternatives_LastWins(alternative.heap, id, value, path, i + 1)

\* The loop of the validate of the anonymous class of Schema.union from
\* alternative i on, and the return statement after it.
UnionAlternatives(h, id, value, path, i) ==
    IF i > Len(h[id].validators)
    THEN [result |-> Failure(<<createError(h[id], path,
                                   "Value does not match any of the expected types",
                                   "UNION_MISMATCH")>>),
          heap |-> h]
    ELSE LET alternative == Validate(h, h[id].validators[i], value, path)
         IN IF IsThrown(alternative.result) \/ alternative.result.success
            THEN alternative
            ELSE UnionAlternatives(alternative.heap, id, value, path, i + 1)

\* The validate of the anonymous class of Schema.union.
UnionValidate(h, id, value, path) ==
    LET optionalResult == handleOptional(h[id], value, path)
    IN IF optionalResult # <<>> THEN [result |-> optionalResult[1], heap |-> h]
       ELSE UnionAlternatives(h, id, value, path, 1)

(* ------------------------------- dispatch ------------------------------- *)

\* validator.validate(value, path) for the validator h[id], by its class.
Validate(h, id, value, path) ==
    LET v == h[id]
    IN CASE v.kind = "string" ->
              LET r == StringValidate(v, value, path)
              IN [result |-> r.result, heap |-> [h EXCEPT ![id] = r.v]]
         [] v.kind = "number" -> [result |-> NumberValidate(v, value, path), heap |-> h]
         [] v.kind = "boolean" -> [result |-> BooleanValidate(v, value, path), heap |-> h]
         [] v.kind = "literal" -> [result |-> LiteralValidate(v, value, path), heap |-> h]
         [] v.kind = "currency" -> [result |-> CurrencyValidate(v, value, path), heap |-> h]
         [] v.kind = "date" -> [result |-> DateValidate(v, value, path), heap |-> h]
         [] v.kind = "array" -> ArrayValidate(h, id, value, path)
         [] v.kind = "object" -> ObjectValidate(h, id, value, path)
         [] v.kind = "union" -> UnionValidate(h, id, value, path)

(* ----------------------------- Schema builder --------------------------- *)

\* Schema.string
SchemaString == NewValidator("string")

\* Schema.number
SchemaNumber == NewValidator("number")

\* Schema.boolean
SchemaBoolean == NewValidator("boolean")

\* Schema.date
SchemaDate == NewValidator("date")

\* Schema.currency
SchemaCurrency == NewValidator("currency")

\* Schema.array
SchemaArray(itemValidator) == [NewValidator("array") EXCEPT !.itemValidator = itemValidator]

\* Schema.object: the schema is the sequence of <<key, validator>> pairs in
\* the order the properties of the schema object were created.
SchemaObject(schema) == [NewValidator("object") EXCEPT !.schema = schema]

\* Schema.literal
SchemaLiteral(value) == [NewValidator("literal") EXCEPT !.literal = value]

\* Schema.union
SchemaUnion(validators) == [NewValidator("union") EXCEPT !.validators = validators]

(* --------------------------- inputs of the model ------------------------ *)

GoodEmail == Str(<<"a", "@", "b", ".", "c">>)
BadEmail == Str(<<"b", "a", "d">>)

\* The validator trees the model starts from, each a heap whose last
\* validator is the root:
\*   one validator of every scalar class;
\*   object({profile: object({contact: object({email: string().email()})})});
\*   array(object({email: string().email()}));
\*   object({name: string(), 1: number()});
\*   union(literal("a"), currency().usd(), string());
\*   array(number()).
Scenarios ==
    {<<SchemaString>>, <<SchemaNumber>>, <<SchemaBoolean>>, <<SchemaCurrency>>,
     <<SchemaDate>>,
     <<SchemaLiteral(Str(<<"a">>))>>,
     <<email(SchemaString), SchemaObject(<<<<"email", 1>>>>),
       SchemaObject(<<<<"contact", 2>>>>), SchemaObject(<<<<"profile", 3>>>>)>>,
     <<email(SchemaString), SchemaObject(<<<<"email", 1>>>>), SchemaArray(2)>>,
     <<SchemaString, SchemaNumber, SchemaObject(<<<<"name", 1>>, <<"1", 2>>>>)>>,
     <<SchemaLiteral(Str(<<"a">>)), usd(SchemaCurrency), SchemaString,
       SchemaUnion(<<1, 2, 3>>)>>,
     <<SchemaNumber, SchemaArray(1)>>}

\* new Date(2023, 11, 25)
Christmas == DateOf(Time(DaysFromCivil(2023, 12, 25), 0))

\* {k1: v1}, {k1: v1, k2: v2}
Obj1(k1, v1) == Obj([k \in {k1} |-> v1])
Obj2(k1, v1, k2, v2) == Obj([k \in {k1, k2} |-> IF k = k1 THEN v1 ELSE v2])

\* The values validate is called with.
Values ==
    {Undefined, Null, NaN, Bool(TRUE), Num(2, 0), Num(-1, 0), Num(5, 1),
     Str(<<>>), Str(<<"a">>), Str(<<"A">>),
     GoodEmail, Str(<<"h", "t", "t", "p", ":", "/", "/", "a">>),
     Str(<<"$", "2">>), Str(<<"$", "-", "1">>),
     Christmas, DateOf(NaN),
     Str(<<"2", "5", "/", "1", "2", "/", "2", "0", "2", "3">>),
     Str(<<"1", "2", "/", "2", "5", "/", "2", "0", "2", "3">>),
     Str(<<"2", "0", "2", "3", "-", "1", "2", "-", "2", "5">>),
     Str(<<"2", "5", ".", "1", "2", ".", "2", "3">>),
     Str(<<"1", "2", "-", "2", "5", "-", "2", "3">>),
     Str(<<"2", "0", "2", "3", "-", "1", "2", "-", "2", "5", "T", "1", "0", ":", "0", "0", ":", "0", "0", "Z">>),
     Arr(<<>>), Arr(<<Str(<<"a">>), Num(5, 1), Null>>),
     Arr(<<Obj1("email", GoodEmail), Obj1("email", BadEmail)>>),
     Arr(<<Obj1("email", BadEmail), Null, Obj(EmptyProps)>>),
     Obj(EmptyProps),
     Obj2("name", Str(<<"a">>), "extra", Num(2, 0)),
     Obj2("name", Num(2, 0), "1", Str(<<"a">>)),
     Obj2("name", Str(<<"a">>), "1", Num(2, 0)),
     Obj1("profile", Obj1("contact", Obj1("email", BadEmail))),
     Obj1("profile", Obj1("contact", Obj1("email", GoodEmail)))}

\* The values validate is also called with at a path other than the default.
PathValues ==
    {Undefined, Null, Num(-1, 0),
     Arr(<<Obj1("email", BadEmail), Null, Obj(EmptyProps)>>),
     Obj1("profile", Obj1("contact", Obj1("email", BadEmail)))}

\* The arguments (value, path) of the validate calls: every value at the
\* default path "", some at the path "user".
Inputs ==
    {[value |-> x, path |-> ""] : x \in Values}
    \cup {[value |-> x, path |-> "user"] : x \in PathValues}

\* The messages withMessage is called with.
Messages == {"custom"}

\* The RegExp objects pattern is called with: /a/g and /^[A-Z]+$/.
Patterns == {RegExp(CharSource, TRUE), RegExp(UpperSource, FALSE)}

\* The lengths minLength and maxLength are called with.
MinLengths == {3}
MaxLengths == {1}

\* The numbers min and max of a number validator are called with.
MinValues == {Num(2, 0)}
MaxValues == {Num(0, 0)}

\* The amounts min and max of a currency validator are called with.
MinAmounts == {Num(1, 0)}
MaxAmounts == {Num(-2, 0), Num(1, 0)}

\* The dates min and max of a date validator are called with; new Date(NaN)
\* is an invalid Date.
MinDates == {DateOf(Time(DaysFromCivil(2023, 12, 26), 0)), DateOf(NaN)}
MaxDates == {DateOf(Time(DaysFromCivil(2000, 1, 1), 0))}

\* The values of new Date() when past and future are called.
Nows == {DateOf(Time(DaysFromCivil(2023, 12, 26), 0))}

\* The time values an engine gives a string that is not in the ISO format.
LegacyDates == {NaN, Time(DaysFromCivil(2001, 1, 1), 0)}

(* ----------------------------- state machine ---------------------------- *)

\* The validator the caller holds: validate and the configuration methods
\* are called on the root of the tree; optional() is also called on the
\* validators below it.
Root == Len(heap)

Init ==
    /\ heap \in Scenarios
    /\ call = <<>>
    /\ result = <<>>
    /\ previous = <<>>
    /\ legacyDate \in IF \E id \in DOMAIN heap : heap[id].kind = "date"
                      THEN LegacyDates
                      ELSE {NaN}

\* A configuration call that replaces validator id by v; it returns this.
Configure(id, v) ==
    /\ heap' = [heap EXCEPT ![id] = v]
    /\ call' = <<>>
    /\ result' = <<>>
    /\ previous' = <<>>
    /\ UNCHANGED legacyDate

\* A chainable method of the root validator, defined by the classes among
\* kinds, that leaves the validator as v.
RootCall(kinds, v) ==
    /\ heap[Root].kind \in kinds
    /\ Configure(Root, v)

\* validator.validate(value, path): the whole call, the validators below it
\* included.  previous keeps the result of the call before when that call
\* had the same validator and arguments and nothing happened in between.
ValidateCall(id, value, path) ==
    /\ LET r == Validate(heap, id, value, path)
       IN /\ heap' = r.heap
          /\ result' = <<r.result>>
    /\ call' = <<[id |-> id, value |-> value, path |-> path]>>
    /\ previous' = IF call = <<[id |-> id, value |-> value, path |-> path]>>
                   THEN result
                   ELSE <<>>
    /\ UNCHANGED legacyDate

\* The public methods: each disjunct is one method called with its arguments.
Next ==
    \/ \E id \in DOMAIN heap : Configure(id, optional(heap[id]))
    \/ \E message \in Messages : Configure(Root, withMessage(heap[Root], message))
    \/ \E length \in MinLengths : RootCall({"string", "array"}, minLength(heap[Root], length))
    \/ \E length \in MaxLengths : RootCall({"string", "array"}, maxLength(heap[Root], length))
    \/ RootCall({"array"}, nonEmpty(heap[Root]))
    \/ \E regex \in Patterns : RootCall({"string"}, pattern(heap[Root], regex))
    \/ RootCall({"string"}, email(heap[Root]))
    \/ RootCall({"string"}, url(heap[Root]))
    \/ \E value \in MinValues : RootCall({"number"}, min(heap[Root], value))
    \/ \E value \in MaxValues : RootCall({"number"}, max(heap[Root], value))
    \/ RootCall({"number"}, int(heap[Root]))
    \/ RootCall({"number"}, positive(heap[Root]))
    \/ RootCall({"number"}, negative(heap[Root]))
    \/ RootCall({"currency"}, usd(heap[Root]))
    \/ RootCall({"currency"}, eur(heap[Root]))
    \/ \E amount \in MinAmounts : RootCall({"currency"}, minAmount(heap[Root], amount))
    \/ \E amount \in MaxAmounts : RootCall({"currency"}, maxAmount(heap[Root], amount))
    \/ RootCall({"currency"}, allowNegativeAmounts(heap[Root]))
    \/ \E date \in MinDates : RootCall({"date"}, minDate(heap[Root], date))
    \/ \E date \in MaxDates : RootCall({"date"}, maxDate(heap[Root], date))
    \/ \E now \in Nows : RootCall({"date"}, past(heap[Root], now))
    \/ \E now \in Nows : RootCall({"date"}, future(heap[Root], now))
    \/ RootCall({"date"}, ddmmyyyy(heap[Root], "/"))
    \/ RootCall({"date"}, mmddyyyy(heap[Root], "/"))
    \/ RootCall({"date"}, yyyymmdd(heap[Root], "-"))
    \/ RootCall({"date"}, ddmmyy(heap[Root], "."))
    \/ RootCall({"date"}, mmddyy(heap[Root], "-"))
    \/ RootCall({"date"}, iso8601(heap[Root]))
    \/ \E in \in Inputs : ValidateCall(Root, in.value, in.path)

Spec == Init /\ [][Next]_vars

(* ------------------------ a currency validator alone -------------------- *)

\* The strings a currency validator is called with: "$2", "$ 2", "USD 2",
\* "2$", "2", "$2a", "$", "$-1", "$1,234.56", "€1,234", "€1,5", "2₽",
\* "2 ₽", "2 RUB", and values that are not strings.
CurrencyValues ==
    {Str(<<"$", "2">>), Str(<<"$", " ", "2">>), Str(<<"U", "S", "D", " ", "2">>),
     Str(<<"2", "$">>), Str(<<"2">>), Str(<<"$", "2", "a">>), Str(<<"$">>),
     Str(<<"$", "-", "1">>),
     Str(<<"$", "1", ",", "2", "3", "4", ".", "5", "6">>),
     Str(<<"€", "1", ",", "2", "3", "4">>), Str(<<"€", "1", ",", "5">>),
     Str(<<"2", "₽">>), Str(<<"2", " ", "₽">>), Str(<<"2", " ", "R", "U", "B">>),
     Str(<<" ", "$", "2">>), Str(<<"$", "2", " ">>), Str(<<"$", " ", " ", "2">>),
     Undefined, Num(2, 0), Obj(EmptyProps)}

CurrencyInit ==
    /\ heap = <<SchemaCurrency>>
    /\ call = <<>>
    /\ result = <<>>
    /\ previous = <<>>
    /\ legacyDate = NaN

\* The public methods of a currency validator.
CurrencyNext ==
    \/ Configure(Root, optional(heap[Root]))
    \/ Configure(Root, usd(heap[Root]))
    \/ Configure(Root, gbp(heap[Root]))
    \/ Configure(Root, eur(heap[Root]))
    \/ Configure(Root, rub(heap[Root]))
    \/ \E amount \in MinAmounts : Configure(Root, minAmount(heap[Root], amount))
    \/ \E amount \in MaxAmounts : Configure(Root, maxAmount(heap[Root], amount))
    \/ Configure(Root, positiveAmount(heap[Root]))
    \/ Configure(Root, allowNegativeAmounts(heap[Root]))
    \/ \E value \in CurrencyValues : ValidateCall(Root, value, "")

CurrencySpec == CurrencyInit /\ [][CurrencyNext]_vars

(* --------------------------- custom messages ---------------------------- *)

\* The messages withMessage is called with here, the empty string among
\* them.
AnyMessages == {"custom", ""}

\* The values validate is called with here.
MessageValues ==
    {Undefined, Bool(TRUE), Num(2, 0), Str(<<"a">>), BadEmail,
     Str(<<"$", "-", "1">>),
     Arr(<<Obj1("email", BadEmail), Null>>),
     Obj(EmptyProps),
     Obj1("profile", Obj1("contact", Obj1("email", BadEmail)))}

\* withMessage on the root of every validator tree, with the methods that
\* make the root emit constraint errors.
MessageNext ==
    \/ \E message \in AnyMessages : Configure(Root, withMessage(heap[Root], message))
    \/ \E length \in MinLengths : RootCall({"string", "array"}, minLength(heap[Root], length))
    \/ RootCall({"string"}, email(heap[Root]))
    \/ \E value \in MinValues : RootCall({"number"}, min(heap[Root], value))
    \/ RootCall({"currency"}, usd(heap[Root]))
    \/ \E value \in MessageValues : ValidateCall(Root, value, "")

MessageSpec == Init /\ [][MessageNext]_vars

(* ------------------------------- claims --------------------------------- *)

\* A validate call has been made; its arguments and its result.
Called == call # <<>>
TheCall == call[1]
TheResult == result[1]
RootValidator == heap[Root]

\* The codes of a sequence of errors, in order.
Codes(errors) == [i \in 1..Len(errors) |-> errors[i].code]

\* C1: two consecutive validate calls on the same validator with the same
\* value and path return equal results.
C1_Idempotent ==
    (Called /\ previous # <<>>) => previous = result

\* C2, as claimed: success holds iff there are no errors, and data is present
\* iff success holds.
C2_DataIffSuccess ==
    Called =>
        /\ TheResult.success <=> TheResult.errors = <<>>
        /\ TheResult.data # Undefined <=> TheResult.success

\* C2, amended: success holds iff there are no errors, and data is present
\* iff success holds and the validated value is neither undefined nor null.
C2_ResultShape ==
    Called =>
        /\ TheResult.success <=> TheResult.errors = <<>>
        /\ TheResult.data # Undefined <=>
               (TheResult.success /\ ~IsAbsent(TheCall.value))

\* An optional validator has accepted null: success without data.
C2_Witness ==
    /\ Called
    /\ TheCall.value = Null
    /\ TheResult.success
    /\ TheResult.data = Undefined

\* C3: validate(undefined, p) and validate(null, p) succeed without data and
\* without errors on an optional validator, and fail with the single error
\* REQUIRED at p on any other, whatever the class of the validator.
C3_AbsentRule ==
    (Called /\ IsAbsent(TheCall.value)) =>
        IF RootValidator.isOptional
        THEN TheResult = Result(TRUE, Undefined, <<>>)
        ELSE /\ ~TheResult.success
             /\ TheResult.data = Undefined
             /\ Len(TheResult.errors) = 1
             /\ TheResult.errors[1].code = "REQUIRED"
             /\ TheResult.errors[1].path = TheCall.path

\* A required object validator has rejected null at the path "user".
C3_Witness ==
    /\ Called
    /\ TheCall.value = Null
    /\ TheCall.path = "user"
    /\ RootValidator.kind = "object"
    /\ ~RootValidator.isOptional
    /\ Codes(TheResult.errors) = <<"REQUIRED">>

\* The regular expression matches somewhere in s.
Matches(re, s) == \E i \in 0..Len(s) : MatchEnd(re.source, s, i) # -1

\* The codes of the constraints of a string validator that s violates.
ViolatedByString(v, s) ==
    (IF IsSet(v.minLengthValue) /\ Len(s) < v.minLengthValue[1]
     THEN <<"MIN_LENGTH">> ELSE <<>>)
    \o (IF IsSet(v.maxLengthValue) /\ Len(s) > v.maxLengthValue[1]
        THEN <<"MAX_LENGTH">> ELSE <<>>)
    \o (IF IsSet(v.regexPattern) /\ ~Matches(v.regexPattern[1], s)
        THEN <<"PATTERN_MISMATCH">> ELSE <<>>)

\* The codes of the constraints of a number validator that x violates.
ViolatedByNumber(v, x) ==
    (IF IsSet(v.minValue) /\ Less(x, v.minValue[1]) THEN <<"MIN_VALUE">> ELSE <<>>)
    \o (IF IsSet(v.maxValue) /\ Less(v.maxValue[1], x) THEN <<"MAX_VALUE">> ELSE <<>>)
    \o (IF IsSet(v.isInteger) /\ ~IsInteger(x) THEN <<"NOT_INTEGER">> ELSE <<>>)

\* The codes of the constraints of a currency validator that an amount violates.
ViolatedByAmount(v, amount) ==
    (IF ~v.allowNegative /\ Less(amount, Num(0, 0)) THEN <<"NEGATIVE_AMOUNT">> ELSE <<>>)
    \o (IF IsSet(v.minAmount) /\ Less(amount, v.minAmount[1])
        THEN <<"MIN_AMOUNT">> ELSE <<>>)
    \o (IF IsSet(v.maxAmount) /\ Less(v.maxAmount[1], amount)
        THEN <<"MAX_AMOUNT">> ELSE <<>>)

\* The result reports exactly the violated constraints.
Reports(violated) ==
    /\ Codes(TheResult.errors) = violated
    /\ TheResult.success <=> violated = <<>>

\* The call was on a string validator with a string.
StringCase ==
    Called /\ RootValidator.kind = "string" /\ TheCall.value.t = "string"

\* The call was on a number validator with a number.
NumberCase ==
    Called /\ RootValidator.kind = "number" /\ TheCall.value.t = "number"

\* The call was on a currency validator with a string that parses.
CurrencyCase ==
    /\ Called
    /\ RootValidator.kind = "currency"
    /\ TheCall.value.t = "string"
    /\ IsSet(RootValidator.currencyFormat)
    /\ parseCurrency(RootValidator.currencyFormat[1], Trim(TheCall.value.s)).success

ParsedAmount ==
    parseCurrency(RootValidator.currencyFormat[1], Trim(TheCall.value.s)).value.props["amount"]

\* C4: on a type-valid value, the errors of a string, number or currency
\* validator are exactly one error per violated constraint, and success
\* holds iff no constraint is violated.
C4_AllErrors ==
    /\ StringCase => Reports(ViolatedByString(RootValidator, TheCall.value.s))
    /\ NumberCase => Reports(ViolatedByNumber(RootValidator, TheCall.value))
    /\ CurrencyCase => Reports(ViolatedByAmount(RootValidator, ParsedAmount))

\* The same, for string validators whose pattern is no global RegExp.
AllErrorsWithoutGlobalPattern ==
    /\ (/\ StringCase
        /\ IsSet(RootValidator.regexPattern) => ~RootValidator.regexPattern[1].global)
       => Reports(ViolatedByString(RootValidator, TheCall.value.s))
    /\ NumberCase => Reports(ViolatedByNumber(RootValidator, TheCall.value))
    /\ CurrencyCase => Reports(ViolatedByAmount(RootValidator, ParsedAmount))

\* All three constraints of a validator were violated at once.
ThreeErrorsReached ==
    /\ Called
    /\ Len(TheResult.errors) = 3
    /\ RootValidator.kind \in {"string", "number", "currency"}

\* The call was on a union validator.
UnionCase == Called /\ RootValidator.kind = "union"

\* What alternative i of the union returns for the arguments of the call.
AlternativeResult(i) ==
    Validate(heap, RootValidator.validators[i], TheCall.value, TheCall.path).result

\* The alternatives that accept the arguments of the call.
Accepting == {i \in DOMAIN RootValidator.validators : AlternativeResult(i).success}

FirstAccepting == CHOOSE i \in Accepting : \A j \in Accepting : i <= j

\* C5, as claimed: for any value, when an alternative accepts it, the union
\* returns the result of the first accepting alternative.
C5_FirstMatchAnyValue ==
    (UnionCase /\ Accepting # {}) => TheResult = AlternativeResult(FirstAccepting)

\* C5, amended: for any value that is neither undefined nor null, when an
\* alternative accepts it, the union returns the result of the first
\* accepting alternative.
C5_FirstMatchPresentValue ==
    (UnionCase /\ ~IsAbsent(TheCall.value) /\ Accepting # {})
        => TheResult = AlternativeResult(FirstAccepting)

\* "$2" is accepted by the currency alternative and by the string
\* alternative after it, with different data; the union returned the first.
C5_Witness ==
    /\ UnionCase
    /\ TheCall.value = Str(<<"$", "2">>)
    /\ Accepting = {2, 3}
    /\ AlternativeResult(2) # AlternativeResult(3)
    /\ TheResult = AlternativeResult(2)

\* C6: when every alternative rejects a present value, the union fails with
\* the single error UNION_MISMATCH at the path of the call.
C6_UnionMismatch ==
    (UnionCase /\ ~IsAbsent(TheCall.value) /\ Accepting = {})
        => /\ ~TheResult.success
           /\ Len(TheResult.errors) = 1
           /\ TheResult.errors[1].code = "UNION_MISMATCH"
           /\ TheResult.errors[1].path = TheCall.path

\* Every alternative has rejected the number -1 at the path "user".
C6_Witness ==
    /\ UnionCase
    /\ TheCall.value = Num(-1, 0)
    /\ TheCall.path = "user"
    /\ Accepting = {}
    /\ Codes(TheResult.errors) = <<"UNION_MISMATCH">>

\* The address of the field key of the object at the address path.
KeyAddress(path, key) == IF path = "" THEN key ELSE path \o "." \o key

\* The address of element index (from 0) of the array at the address path.
IndexAddress(path, index) == path \o "[" \o ToString(index) \o "]"

RECURSIVE Sites(_, _, _, _)
\* The validators that take part in validating value with validator id at
\* the address path, each with its address and its class.
Sites(h, id, value, path) ==
    {[path |-> path, kind |-> h[id].kind]}
    \cup (CASE h[id].kind = "array" /\ value.t = "array" ->
                 UNION {Sites(h, h[id].itemValidator, value.items[i], IndexAddress(path, i - 1)) :
                        i \in 1..Len(value.items)}
            [] h[id].kind = "object" /\ value.t \in {"object", "date"} ->
                 UNION {Sites(h, h[id].schema[k][2], GetProp(value, h[id].schema[k][1]),
                              KeyAddress(path, h[id].schema[k][1])) :
                        k \in 1..Len(h[id].schema)}
            [] h[id].kind = "union" ->
                 UNION {Sites(h, h[id].validators[k], value, path) :
                        k \in 1..Len(h[id].validators)}
            [] OTHER -> {})

\* The error codes a validator of a class emits itself.
OwnCodes(kind) ==
    {"REQUIRED"} \cup
    (CASE kind = "string" -> {"INVALID_TYPE", "MIN_LENGTH", "MAX_LENGTH", "PATTERN_MISMATCH"}
       [] kind = "number" -> {"INVALID_TYPE", "MIN_VALUE", "MAX_VALUE", "NOT_INTEGER"}
       [] kind = "boolean" -> {"INVALID_TYPE"}
       [] kind = "currency" -> {"INVALID_TYPE", "MISSING_FORMAT", "INVALID_CURRENCY_FORMAT",
                                "NEGATIVE_AMOUNT", "MIN_AMOUNT", "MAX_AMOUNT"}
       [] kind = "date" -> {"INVALID_TYPE", "INVALID_DATE_FORMAT", "INVALID_DATE",
                            "MIN_DATE", "MAX_DATE"}
       [] kind = "array" -> {"INVALID_TYPE", "MIN_LENGTH", "MAX_LENGTH"}
       [] kind = "object" -> {"INVALID_TYPE"}
       [] kind = "literal" -> {"LITERAL_MISMATCH"}
       [] kind = "union" -> {"UNION_MISMATCH"}
       [] OTHER -> {})

\* The paths of the errors of the result a string pattern raised, in order.
PatternErrorPaths ==
    LET mismatches == SelectSeq(TheResult.errors, LAMBDA e : e.code = "PATTERN_MISMATCH")
    IN  [i \in 1..Len(mismatches) |-> mismatches[i].path]

\* C7: the path of every error is the address of a validator that emits
\* errors of that code, built from the path of the call with '.key' (bare
\* 'key' under the empty path) and '[index]'; a bad email under
\* profile.contact has the path 'profile.contact.email', and a bad email in
\* element 1 of a root array of objects the path '[1].email'.
C7_PathPropagation ==
    Called =>
        /\ \A i \in 1..Len(TheResult.errors) :
               \E site \in Sites(heap, Root, TheCall.value, TheCall.path) :
                   /\ site.path = TheResult.errors[i].path
                   /\ TheResult.errors[i].code \in OwnCodes(site.kind)
        /\ (/\ RootValidator.kind = "object"
            /\ TheCall.path = ""
            /\ TheCall.value = Obj1("profile", Obj1("contact", Obj1("email", BadEmail)))
            /\ RootValidator.schema[1][1] = "profile")
           => PatternErrorPaths = <<"profile.contact.email">>
        /\ (/\ RootValidator.kind = "array"
            /\ TheCall.path = ""
            /\ TheCall.value = Arr(<<Obj1("email", GoodEmail), Obj1("email", BadEmail)>>)
            /\ heap[RootValidator.itemValidator].kind = "object")
           => PatternErrorPaths = <<"[1].email">>

\* The bad email three objects down was reported at its address under the
\* path "user" of the call.
C7_Witness ==
    /\ Called
    /\ TheCall.path = "user"
    /\ Len(TheResult.errors) = 1
    /\ TheResult.errors[1].path = "user.profile.contact.email"
    /\ TheResult.errors[1].code = "PATTERN_MISMATCH"

RECURSIVE ItemErrors(_, _, _)
\* The errors of the elements of items from index i (from 0) on, each
\* validated by the item validator at its own address, in index order.
ItemErrors(items, path, i) ==
    IF i >= Len(items) THEN <<>>
    ELSE Validate(heap, RootValidator.itemValidator, items[i + 1],
                  ItemPath(path, i)).result.errors
         \o ItemErrors(items, path, i + 1)

RECURSIVE FieldErrors(_, _, _, _)
\* The errors of the fields of obj for the schema entries from position k on,
\* each validated by its validator at its own address, in declaration order.
FieldErrors(schema, obj, path, k) ==
    IF k > Len(schema) THEN <<>>
    ELSE Validate(heap, schema[k][2], GetProp(obj, schema[k][1]),
                  FieldPath(path, schema[k][1])).result.errors
         \o FieldErrors(schema, obj, path, k + 1)

\* The codes of the length constraints an array of length n violates.
ViolatedByLength(v, n) ==
    (IF IsSet(v.minLengthValue) /\ n < v.minLengthValue[1] THEN <<"MIN_LENGTH">> ELSE <<>>)
    \o (IF IsSet(v.maxLengthValue) /\ n > v.maxLengthValue[1] THEN <<"MAX_LENGTH">> ELSE <<>>)

\* errors is the validator's own errors (of the given codes, at the path
\* of the call) followed by the errors of the children.
OwnThenChildren(errors, own, children) ==
    /\ Len(errors) = Len(own) + Len(children)
    /\ \A i \in 1..Len(own) : errors[i].code = own[i] /\ errors[i].path = TheCall.path
    /\ SubSeq(errors, Len(own) + 1, Len(errors)) = children

\* C8: an array or object validator validates every child, and its errors
\* are its own errors followed by the errors of all children, in index order
\* for arrays and in the declaration order of the schema keys for objects.
C8_FullTraversal ==
    /\ (Called /\ RootValidator.kind = "array" /\ TheCall.value.t = "array")
       => OwnThenChildren(TheResult.errors,
              ViolatedByLength(RootValidator, Len(TheCall.value.items)),
              ItemErrors(TheCall.value.items, TheCall.path, 0))
    /\ (Called /\ RootValidator.kind = "object" /\ TheCall.value.t = "object")
       => OwnThenChildren(TheResult.errors, <<>>,
              FieldErrors(RootValidator.schema, TheCall.value, TheCall.path, 1))

\* The same, for arrays and for objects whose schema has no integer key.
FullTraversalWithoutIntegerKeys ==
    /\ (Called /\ RootValidator.kind = "array" /\ TheCall.value.t = "array")
       => OwnThenChildren(TheResult.errors,
              ViolatedByLength(RootValidator, Len(TheCall.value.items)),
              ItemErrors(TheCall.value.items, TheCall.path, 0))
    /\ (/\ Called /\ RootValidator.kind = "object" /\ TheCall.value.t = "object"
        /\ \A k \in 1..Len(RootValidator.schema) : IndexOf(RootValidator.schema[k][1]) = -1)
       => OwnThenChildren(TheResult.errors, <<>>,
              FieldErrors(RootValidator.schema, TheCall.value, TheCall.path, 1))

\* An array validator has reported a length error and the errors of two
\* elements after it.
FullTraversalReached ==
    /\ Called
    /\ RootValidator.kind = "array"
    /\ Len(TheResult.errors) >= 3
    /\ TheResult.errors[1].code = "MAX_LENGTH"

\* The call was on an object validator with a plain object.
ObjectCase == Called /\ RootValidator.kind = "object" /\ TheCall.value.t = "object"

SchemaKeys == {RootValidator.schema[k][1] : k \in 1..Len(RootValidator.schema)}

\* What the validator of the schema entry at position k returns for its field.
FieldResult(k) ==
    Validate(heap, RootValidator.schema[k][2],
             GetProp(TheCall.value, RootValidator.schema[k][1]),
             FieldPath(TheCall.path, RootValidator.schema[k][1])).result

\* The input object without the keys that are not in the schema.
KnownPart(obj) ==
    Obj([k \in DOMAIN obj.props \cap SchemaKeys |-> obj.props[k]])

\* C9: when an object validator succeeds, the keys of data are exactly the
\* schema keys whose validation produced a present value; keys of the input
\* that are not in the schema change nothing in the result; an optional
\* field that is absent is not a key of data.
C9_OutputKeys ==
    ObjectCase =>
        /\ TheResult.success =>
               /\ TheResult.data.t = "object"
               /\ DOMAIN TheResult.data.props =
                      {RootValidator.schema[k][1] : k \in
                          {j \in 1..Len(RootValidator.schema) :
                              FieldResult(j).success /\ FieldResult(j).data # Undefined}}
               /\ \A k \in 1..Len(RootValidator.schema) :
                      IsAbsent(GetProp(TheCall.value, RootValidator.schema[k][1]))
                          => RootValidator.schema[k][1] \notin DOMAIN TheResult.data.props
        /\ TheResult = Validate(heap, Root, KnownPart(TheCall.value), TheCall.path).result

\* {name: "a", extra: 2} was accepted by object({name: string(), 1:
\* number().optional()}): data has the key name alone.
C9_Witness ==
    /\ ObjectCase
    /\ TheCall.value = Obj2("name", Str(<<"a">>), "extra", Num(2, 0))
    /\ TheResult.success
    /\ SchemaKeys = {"name", "1"}
    /\ DOMAIN TheResult.data.props = {"name"}

\* The call was on an object validator that is not optional.
RequiredObjectCase == Called /\ RootValidator.kind = "object" /\ ~RootValidator.isOptional

\* The result is a failure with one error of the given code.
FailsWith(code) ==
    /\ ~TheResult.success
    /\ Codes(TheResult.errors) = <<code>>

\* C10, as claimed: a non-optional object validator fails null and fails an
\* array with the single error INVALID_TYPE.
C10_NullAndArrayInvalidType ==
    (RequiredObjectCase /\ TheCall.value.t \in {"null", "array"}) => FailsWith("INVALID_TYPE")

\* C10, amended: a non-optional object validator fails an array with the
\* single error INVALID_TYPE and fails null with the single error REQUIRED.
C10_ArrayInvalidTypeNullRequired ==
    /\ (RequiredObjectCase /\ TheCall.value.t = "array") => FailsWith("INVALID_TYPE")
    /\ (RequiredObjectCase /\ TheCall.value.t = "null") => FailsWith("REQUIRED")

\* A non-optional object validator has rejected the empty array.
C10_Witness ==
    /\ RequiredObjectCase
    /\ TheCall.value = Arr(<<>>)
    /\ FailsWith("INVALID_TYPE")

(* ------------------------------ currency -------------------------------- *)

\* The call was made on a currency validator, with or without a format.
CurrencyCall == Called /\ RootValidator.kind = "currency"

\* The validator of the call has the given preset as its format.
HasFormat(config) == RootValidator.currencyFormat = <<config>>

\* The call returned a failure whose errors have exactly these codes.
FailureCodes(codes) ==
    /\ ~IsThrown(TheResult)
    /\ ~TheResult.success
    /\ Codes(TheResult.errors) = codes

\* C11 as stated: a currency validator without a format fails every present
\* value, string or not, with a MISSING_FORMAT error that is returned.
C11_MissingFormatAnyValue ==
    (CurrencyCall /\ ~IsSet(RootValidator.currencyFormat) /\ ~IsAbsent(TheCall.value))
        => /\ ~IsThrown(TheResult)
           /\ ~TheResult.success
           /\ \E i \in 1..Len(TheResult.errors) : TheResult.errors[i].code = "MISSING_FORMAT"

\* C11 amended: a currency validator without a format fails every string
\* with exactly one MISSING_FORMAT error and every present value that is not
\* a string with exactly one INVALID_TYPE error; neither is thrown.
C11_MissingFormatString ==
    (CurrencyCall /\ ~IsSet(RootValidator.currencyFormat) /\ ~IsAbsent(TheCall.value))
        => IF TypeOf(TheCall.value) = "string"
           THEN FailureCodes(<<"MISSING_FORMAT">>)
           ELSE FailureCodes(<<"INVALID_TYPE">>)

C11_Witness ==
    /\ CurrencyCall
    /\ ~IsSet(RootValidator.currencyFormat)
    /\ TheCall.value = Str(<<"$", "2">>)
    /\ FailureCodes(<<"MISSING_FORMAT">>)

\* The call was made with a string on a currency validator that has a format.
CurrencyStringCall ==
    /\ CurrencyCall
    /\ IsSet(RootValidator.currencyFormat)
    /\ TypeOf(TheCall.value) = "string"

TheFormat == RootValidator.currencyFormat[1]

\* The string of the call, trimmed and with its white space collapsed.
CleanInput == Trim(CollapseWhitespace(TheCall.value.s))

\* clean carries the symbol on the side of the format's placement; glued
\* says that the character next to the symbol is not a space.
CarriesSymbol(fmt, clean, glued) ==
    /\ glued => Len(clean) > Len(fmt.symbol)
    /\ IF fmt.symbolPlacement = "before"
       THEN /\ StartsWith(clean, fmt.symbol)
            /\ glued => clean[Len(fmt.symbol) + 1] # " "
       ELSE /\ EndsWith(clean, fmt.symbol)
            /\ glued => clean[Len(clean) - Len(fmt.symbol)] # " "

\* clean carries the currency code and one space on the side of the
\* format's placement.
CarriesCode(fmt, clean) ==
    /\ Len(clean) > Len(fmt.code) + 1
    /\ IF fmt.symbolPlacement = "before"
       THEN StartsWith(clean, fmt.code \o <<" ">>)
       ELSE EndsWith(clean, <<" ">> \o fmt.code)

\* C12: a string that carries neither the symbol glued to the amount nor the
\* code and one space, on the side of the placement, fails with exactly one
\* INVALID_CURRENCY_FORMAT error.
C12_MarkerDetection ==
    (/\ CurrencyStringCall
     /\ ~CarriesSymbol(TheFormat, CleanInput, TRUE)
     /\ ~CarriesCode(TheFormat, CleanInput))
        => FailureCodes(<<"INVALID_CURRENCY_FORMAT">>)

\* What holds of C12: a string that carries neither the symbol, glued or
\* not, nor the code and one space fails with exactly one
\* INVALID_CURRENCY_FORMAT error.
MarkerDetectionSymbolGluedOrNot ==
    (/\ CurrencyStringCall
     /\ ~CarriesSymbol(TheFormat, CleanInput, FALSE)
     /\ ~CarriesCode(TheFormat, CleanInput))
        => FailureCodes(<<"INVALID_CURRENCY_FORMAT">>)

\* "$ 2" has been accepted by a usd() validator.
SpacedSymbolAccepted ==
    /\ CurrencyStringCall
    /\ HasFormat(CURRENCY_CONFIGS.USD)
    /\ TheCall.value = Str(<<"$", " ", "2">>)
    /\ TheResult.success

\* The string of the call carries a marker that parseCurrency removes, and
\* what is left of it once the marker is removed and the rest trimmed.
MarkerCarried ==
    CarriesSymbol(TheFormat, CleanInput, FALSE) \/ CarriesCode(TheFormat, CleanInput)

AmountText ==
    LET n == IF CarriesSymbol(TheFormat, CleanInput, FALSE)
             THEN Len(TheFormat.symbol)
             ELSE Len(TheFormat.code) + 1
    IN Trim(IF TheFormat.symbolPlacement = "before"
            THEN SubstringFrom(CleanInput, n)
            ELSE SubstringTo(CleanInput, Len(CleanInput) - n))

\* text without a leading "-" and without the thousands separators, and
\* with a last comma that 1-2 digits follow rewritten as "." when the
\* decimal separator is the comma.
NumericText(fmt, text) ==
    LET unsigned == IF text # <<>> /\ Head(text) = "-" THEN Tail(text) ELSE text
        grouped == SelectSeq(unsigned, LAMBDA c : c # fmt.thousandsSeparator)
        commas == {k \in 1..Len(grouped) : grouped[k] = ","}
        last == CHOOSE k \in commas : \A j \in commas : j <= k
    IN IF /\ fmt.decimalSeparator = ","
          /\ commas # {}
          /\ Len(grouped) - last \in {1, 2}
          /\ \A k \in (last + 1)..Len(grouped) : grouped[k] \in Digits
       THEN [k \in 1..Len(grouped) |-> IF k = last THEN "." ELSE grouped[k]]
       ELSE grouped

\* The whole of s is a number: digits with at most one ".".
IsNumber(s) ==
    /\ \A k \in 1..Len(s) : s[k] \in Digits \cup {"."}
    /\ \E k \in 1..Len(s) : s[k] \in Digits
    /\ Cardinality({k \in 1..Len(s) : s[k] = "."}) <= 1

\* C13: a string whose text, once the marker, a leading "-" and the
\* thousands separators are removed, is not a number as a whole fails with
\* exactly one INVALID_CURRENCY_FORMAT error.
C13_WholeTextNumeric ==
    (/\ CurrencyStringCall
     /\ MarkerCarried
     /\ ~IsNumber(NumericText(TheFormat, AmountText)))
        => FailureCodes(<<"INVALID_CURRENCY_FORMAT">>)

\* "$2a" has been accepted by a usd() validator with the amount 2, and
\* "€1,234" by a eur() validator with the amount 1.
NumericPrefixAccepted ==
    /\ CurrencyStringCall
    /\ HasFormat(CURRENCY_CONFIGS.USD)
    /\ TheCall.value = Str(<<"$", "2", "a">>)
    /\ TheResult.success
    /\ TheResult.data.props["amount"] = Num(2, 0)

ThousandsCommaAccepted ==
    /\ CurrencyStringCall
    /\ HasFormat(CURRENCY_CONFIGS.EUR)
    /\ TheCall.value = Str(<<"€", "1", ",", "2", "3", "4">>)
    /\ TheResult.success
    /\ TheResult.data.props["amount"] = Num(1, 0)

\* What holds of C13: a string with the marker and an empty amount fails
\* with exactly one INVALID_CURRENCY_FORMAT error.
EmptyAmountRefused ==
    (CurrencyStringCall /\ MarkerCarried /\ NumericText(TheFormat, AmountText) = <<>>)
        => FailureCodes(<<"INVALID_CURRENCY_FORMAT">>)

EmptyAmountReached ==
    /\ CurrencyStringCall
    /\ MarkerCarried
    /\ NumericText(TheFormat, AmountText) = <<>>
    /\ FailureCodes(<<"INVALID_CURRENCY_FORMAT">>)

\* "$1,234.56"
ReadmeAmount == <<"$", "1", ",", "2", "3", "4", ".", "5", "6">>

\* A usd() validator has accepted "$1,234.56".
ReadmeExampleAccepted ==
    /\ CurrencyStringCall
    /\ HasFormat(CURRENCY_CONFIGS.USD)
    /\ TheCall.value = Str(ReadmeAmount)
    /\ TheResult.success

\* C14: when a usd() validator accepts "$1,234.56", the data of the result
\* is {amount: 1234.56, currency: "USD", originalString: "$1,234.56"}.
C14_CurrencyFieldIsCode ==
    ReadmeExampleAccepted
        => TheResult.data = Obj([k \in {"amount", "currency", "originalString"} |->
                                    CASE k = "amount" -> Num(123456, 2)
                                      [] k = "currency" -> Str(<<"U", "S", "D">>)
                                      [] k = "originalString" -> Str(ReadmeAmount)])

\* What holds of C14: the amount and the original string are those of the
\* claim, and the currency field holds the symbol that was matched.
CurrencyFieldIsMarker ==
    ReadmeExampleAccepted
        => TheResult.data = Obj([k \in {"amount", "currency", "originalString"} |->
                                    CASE k = "amount" -> Num(123456, 2)
                                      [] k = "currency" -> Str(<<"$">>)
                                      [] k = "originalString" -> Str(ReadmeAmount)])

(* -------------------------------- dates --------------------------------- *)

\* The call was made on a date validator; with the given format pattern.
DateCall == Called /\ RootValidator.kind = "date"

HasPattern(tokens) == RootValidator.formatPattern = <<tokens>>

\* s is n digits.
AllDigits(s, n) == Len(s) = n /\ \A k \in 1..n : s[k] \in Digits

\* s is three fields of digits of the lengths a, b and c with the separator
\* sep between them.
ThreeFields(s, a, b, c, sep) ==
    /\ Len(s) = a + b + c + 2
    /\ AllDigits(SubSeq(s, 1, a), a)
    /\ s[a + 1] = sep
    /\ AllDigits(SubSeq(s, a + 2, a + b + 1), b)
    /\ s[a + b + 2] = sep
    /\ AllDigits(SubSeq(s, a + b + 3, a + b + c + 2), c)

\* The number written by the digits of s from position from to position to.
Field(s, from, to) == DigitsValue(SubSeq(s, from, to))

\* C15: a ddmmyyyy('/') validator fails every string NN/NN/NNNN whose month
\* field is greater than 12 with an INVALID_DATE_FORMAT error.
C15_MonthOverflowRefused ==
    (/\ DateCall
     /\ HasPattern(<<"DD", "/", "MM", "/", "YYYY">>)
     /\ TypeOf(TheCall.value) = "string"
     /\ ThreeFields(TheCall.value.s, 2, 2, 4, "/")
     /\ Field(TheCall.value.s, 4, 5) > 12)
        => FailureCodes(<<"INVALID_DATE_FORMAT">>)

\* "12/25/2023" has been accepted by a ddmmyyyy('/') validator as the 12th
\* of January 2025.
MonthRolledOver ==
    /\ DateCall
    /\ HasPattern(<<"DD", "/", "MM", "/", "YYYY">>)
    /\ TheCall.value = Str(<<"1", "2", "/", "2", "5", "/", "2", "0", "2", "3">>)
    /\ TheResult.success
    /\ TheResult.data = DateOf(Time(DaysFromCivil(2025, 1, 12), 0))

RECURSIVE FitsPattern(_, _)
\* s is written in the format of a pattern, given by its fields and
\* separators: two digits for DD, MM and YY, four for YYYY, and each
\* separator as it is.
FitsPattern(tokens, s) ==
    IF tokens = <<>> THEN s = <<>>
    ELSE LET n == CASE Head(tokens) \in {"DD", "MM", "YY"} -> 2
                    [] Head(tokens) = "YYYY" -> 4
                    [] OTHER -> 1
         IN /\ Len(s) >= n
            /\ IF Head(tokens) \in {"DD", "MM", "YY", "YYYY"}
               THEN AllDigits(SubSeq(s, 1, n), n)
               ELSE s[1] = Head(tokens)
            /\ FitsPattern(Tail(tokens), SubSeq(s, n + 1, Len(s)))

\* s is written as YYYY-MM-DDTHH:MM:SS, then maybe .mmm, then maybe Z.
FitsIso(s) ==
    /\ Len(s) >= 19
    /\ ThreeFields(SubSeq(s, 1, 10), 4, 2, 2, "-")
    /\ s[11] = "T"
    /\ ThreeFields(SubSeq(s, 12, 19), 2, 2, 2, ":")
    /\ LET rest == SubSeq(s, 20, Len(s))
           zone == IF rest # <<>> /\ rest[Len(rest)] = "Z"
                   THEN SubSeq(rest, 1, Len(rest) - 1)
                   ELSE rest
       IN zone = <<>> \/ (Len(zone) = 4 /\ zone[1] = "." /\ AllDigits(Tail(zone), 3))

\* The call was made with a string on a date validator with a format, and
\* the string is not written in that format.
IllFormedDateCall ==
    /\ DateCall
    /\ IsSet(RootValidator.formatPattern)
    /\ TypeOf(TheCall.value) = "string"
    /\ IF HasPattern(<<"ISO8601">>)
       THEN ~FitsIso(TheCall.value.s)
       ELSE ~FitsPattern(RootValidator.formatPattern[1], TheCall.value.s)

PivotYear(yy) == IF yy <= 29 THEN 2000 + yy ELSE 1900 + yy

\* The call was made on a ddmmyy(sep) or mmddyy(sep) validator with a
\* string written in its format whose day and month exist; the position of
\* the day and of the month in the string.
TwoDigitYearCall(sep) ==
    /\ DateCall
    /\ \/ HasPattern(<<"DD", sep, "MM", sep, "YY">>)
       \/ HasPattern(<<"MM", sep, "DD", sep, "YY">>)
    /\ TypeOf(TheCall.value) = "string"
    /\ ThreeFields(TheCall.value.s, 2, 2, 2, sep)
    /\ LET s == TheCall.value.s
           dayFirst == RootValidator.formatPattern[1][1] = "DD"
           day == IF dayFirst THEN Field(s, 1, 2) ELSE Field(s, 4, 5)
           month == IF dayFirst THEN Field(s, 4, 5) ELSE Field(s, 1, 2)
       IN /\ month \in 1..12
          /\ day \in 1..DaysInMonth(PivotYear(Field(s, 7, 8)), month)

\* The string of the call is parsed to a date of the year of the claim: the
\* call reports no invalid date, and the date it returns is of that year.
ParsedWithPivotYear ==
    /\ ~IsThrown(TheResult)
    /\ \A i \in 1..Len(TheResult.errors) :
           TheResult.errors[i].code \in {"MIN_DATE", "MAX_DATE"}
    /\ TheResult.success =>
           /\ TheResult.data.t = "date"
           /\ TheResult.data.time # NaN
           /\ CivilFromDays(TheResult.data.time.day).year
                  = PivotYear(Field(TheCall.value.s, 7, 8))

\* C17: for each separator among "/", "-" and ".", a string in the format of
\* ddmmyy(sep) or mmddyy(sep) is parsed to a date whose year is 2000+yy for
\* yy from 00 to 29 and 1900+yy for yy from 30 to 99.
C17_TwoDigitYear ==
    \A sep \in {"/", "-", "."} : TwoDigitYearCall(sep) => ParsedWithPivotYear

\* What holds of C17: the same for the separators "/" and "-".
TwoDigitYearSlashOrDash ==
    \A sep \in {"/", "-"} : TwoDigitYearCall(sep) => ParsedWithPivotYear

\* mmddyy('-') has returned "12-25-23" as a date of 2023.
TwoDigitYearReached ==
    /\ TwoDigitYearCall("-")
    /\ TheResult.success
    /\ TheResult.data = Christmas

\* ddmmyy('.') has refused "25.12.23" as an invalid date, or has returned it
\* as the date the engine reads in the string.
DotSeparatorNotSplit ==
    /\ TwoDigitYearCall(".")
    /\ TheCall.value = Str(<<"2", "5", ".", "1", "2", ".", "2", "3">>)
    /\ \/ FailureCodes(<<"INVALID_DATE">>)
       \/ TheResult.success /\ TheResult.data = DateOf(legacyDate)

\* C18: a date validator without a format fails a number with exactly one
\* INVALID_TYPE error.
C18_NumberIsNotADate ==
    (DateCall /\ ~IsSet(RootValidator.formatPattern) /\ TypeOf(TheCall.value) = "number")
        => FailureCodes(<<"INVALID_TYPE">>)

\* What holds of C18: a number is read as a time value in milliseconds; it
\* never fails with INVALID_TYPE, and NaN fails with INVALID_DATE.
NumberIsATimeValue ==
    (DateCall /\ TypeOf(TheCall.value) = "number")
        => /\ ~IsThrown(TheResult)
           /\ \A i \in 1..Len(TheResult.errors) : TheResult.errors[i].code # "INVALID_TYPE"
           /\ TheCall.value = NaN => FailureCodes(<<"INVALID_DATE">>)

\* validate(2) has returned the date 2 ms after the epoch.
NumberAccepted ==
    /\ DateCall
    /\ ~IsSet(RootValidator.formatPattern)
    /\ TheCall.value = Num(2, 0)
    /\ TheResult.success
    /\ TheResult.data = DateOf(Time(0, 2))

(* --------------------------- custom messages ---------------------------- *)

\* The errors of a result that the validator of the call emitted itself are
\* those at the path of the call: the errors of its children are at longer
\* paths.
OwnErrors(errors) == SelectSeq(errors, LAMBDA e : e.path = TheCall.path)

ChildErrors(errors) == SelectSeq(errors, LAMBDA e : e.path # TheCall.path)

\* The result of the same call on the same validators when the root has no
\* custom message.
WithoutCustomMessage ==
    Validate([heap EXCEPT ![Root].customMessage = <<>>],
             Root, TheCall.value, TheCall.path).result

\* After withMessage(m) on the root, the errors the root emits have the
\* message m and the errors of its children are those they emit without it.
MessageOverrides(m) ==
    (Called /\ RootValidator.customMessage = <<m>>)
        => /\ ~IsThrown(TheResult)
           /\ \A i \in 1..Len(OwnErrors(TheResult.errors)) :
                  OwnErrors(TheResult.errors)[i].message = m
           /\ ChildErrors(TheResult.errors) = ChildErrors(WithoutCustomMessage.errors)

\* C19: for every string m, after withMessage(m) every error the validator
\* itself emits has the message m, and the errors of its children keep
\* their own messages.
C19_CustomMessage == \A m \in AnyMessages : MessageOverrides(m)

\* What holds of C19: the same for every message that is not empty.
CustomMessageNotEmpty == \A m \in AnyMessages \ {""} : MessageOverrides(m)

\* An array validator with the message "custom" has emitted an error of its
\* own with that message, and errors of its items with theirs.
CustomMessageReached ==
    /\ Called
    /\ RootValidator.kind = "array"
    /\ RootValidator.customMessage = <<"custom">>
    /\ OwnErrors(TheResult.errors) # <<>>
    /\ ChildErrors(TheResult.errors) # <<>>
    /\ MessageOverrides("custom")

\* After withMessage(''), validate(2) on a string validator has returned the
\* default message.
EmptyMessageIgnored ==
    /\ Called
    /\ RootValidator.kind = "string"
    /\ RootValidator.customMessage = <<"">>
    /\ TheCall.value = Num(2, 0)
    /\ TheResult.errors = <<Error("", "Expected string", "INVALID_TYPE")>>

(* ------------------------------- totality ------------------------------- *)

\* r is a ValidationResult: success, data and a list of errors, each with a
\* path, a message and a code.
IsValidationResult(r) ==
    /\ DOMAIN r = {"success", "data", "errors"}
    /\ r.success \in BOOLEAN
    /\ \A i \in 1..Len(r.errors) : DOMAIN r.errors[i] = {"path", "message", "code"}

\* C20: every validate call returns a ValidationResult and throws nothing,
\* and a result that is not a success lists at least one error.
C20_Totality ==
    Called
        => /\ ~IsThrown(TheResult)
           /\ IsValidationResult(TheResult)
           /\ ~TheResult.success => TheResult.errors # <<>>

\* A date validator whose minimum is an invalid Date, the bound whose
\* toISOString() would throw, has validated a valid date and returned.
C20_Witness ==
    /\ DateCall
    /\ RootValidator.minDate = <<DateOf(NaN)>>
    /\ TheCall.value = Christmas
    /\ IsValidationResult(TheResult)
    /\ TheResult.success

(* ----------------------- the Enigma cipher simulator --------------------- *)
(* src/unnamed/part_003.  A letter is a one-char string, a text a sequence   *)
(* of them.  The rotors of a machine are numbered 1..3 here, left to right   *)
(* (rotors[0..2] in the code); rotor IDs are the code's, 0..2.               *)

alphabet ==
    <<"A", "B", "C", "D", "E", "F", "G", "H", "I", "J", "K", "L", "M",
      "N", "O", "P", "Q", "R", "S", "T", "U", "V", "W", "X", "Y", "Z">>

\* The lower-case letters, in the order of their upper-case forms.
LowerCase ==
    <<"a", "b", "c", "d", "e", "f", "g", "h", "i", "j", "k", "l", "m",
      "n", "o", "p", "q", "r", "s", "t", "u", "v", "w", "x", "y", "z">>

\* n % m of JavaScript: the remainder has the sign of n.
Remainder(n, m) == IF n >= 0 THEN n % m ELSE 0 - ((0 - n) % m)

mod(n, m) == Remainder(Remainder(n, m) + m, m)

\* string.indexOf(c) for a one-char c, counted from 0; -1 when absent.
indexOf(string, c) ==
    IF \E i \in 1..Len(string) : string[i] = c
    THEN (CHOOSE i \in 1..Len(string) :
              /\ string[i] = c
              /\ \A j \in 1..(i - 1) : string[j] # c) - 1
    ELSE -1

\* string[i], counted from 0: a sequence of one char, or <<>> for undefined.
CharAt(string, i) ==
    IF i >= 0 /\ i < Len(string) THEN <<string[i + 1]>> ELSE <<>>

ROTORS ==
    <<[wiring |-> <<"E", "K", "M", "F", "L", "G", "D", "Q", "V", "Z", "N", "T", "O",
                    "W", "Y", "H", "X", "U", "S", "P", "A", "I", "B", "R", "C", "J">>,
       notch |-> "Q"],
      [wiring |-> <<"A", "J", "D", "K", "S", "I", "R", "U", "X", "B", "L", "H", "W",
                    "T", "M", "C", "Q", "G", "Z", "N", "P", "Y", "F", "V", "O", "E">>,
       notch |-> "E"],
      [wiring |-> <<"B", "D", "F", "H", "J", "L", "C", "P", "R", "T", "X", "V", "Z",
                    "N", "Y", "E", "I", "W", "G", "A", "K", "M", "U", "S", "Q", "O">>,
       notch |-> "V"]>>

REFLECTOR ==
    <<"Y", "R", "U", "H", "Q", "S", "L", "D", "P", "X", "N", "G", "O",
      "K", "M", "I", "E", "B", "F", "Z", "C", "W", "V", "J", "A", "T">>

RECURSIVE plugboardSwap(_, _)
\* The first pair that holds c decides.
plugboardSwap(c, pairs) ==
    IF pairs = <<>> THEN c
    ELSE IF c = Head(pairs)[1] THEN Head(pairs)[2]
    ELSE IF c = Head(pairs)[2] THEN Head(pairs)[1]
    ELSE plugboardSwap(c, Tail(pairs))

\* new Rotor(wiring, notch, ringSetting, position)
Rotor(wiring, notch, ringSetting, position) ==
    [wiring |-> wiring, notch |-> notch,
     ringSetting |-> ringSetting, position |-> position]

\* rotor.step()
step(rotor) == [rotor EXCEPT !.position = mod(rotor.position + 1, 26)]

\* rotor.atNotch()
atNotch(rotor) == CharAt(alphabet, rotor.position) = <<rotor.notch>>

\* rotor.forward(c)
forward(rotor, c) ==
    rotor.wiring[mod(indexOf(alphabet, c) + rotor.position - rotor.ringSetting, 26) + 1]

\* rotor.backward(c)
backward(rotor, c) ==
    alphabet[mod(indexOf(rotor.wiring, c) - rotor.position + rotor.ringSetting, 26) + 1]

\* new Enigma(rotorIDs, rotorPositions, ringSettings, plugboardPairs)
Enigma(rotorIDs, rotorPositions, ringSettings, plugboardPairs) ==
    [kind |-> "enigma",
     rotors |-> [i \in 1..Len(rotorIDs) |->
                    Rotor(ROTORS[rotorIDs[i] + 1].wiring, ROTORS[rotorIDs[i] + 1].notch,
                          ringSettings[i], rotorPositions[i])],
     plugboardPairs |-> plugboardPairs]

\* stepRotors with the steps of the two notches applied one after the other:
\* the middle rotor steps for the right notch and again for its own.
stepRotors_DoubleStep(enigma) ==
    LET middleAtNotch == atNotch(enigma.rotors[2])
        rightAtNotch == atNotch(enigma.rotors[3])
        left == IF middleAtNotch THEN step(enigma.rotors[1]) ELSE enigma.rotors[1]
        once == IF rightAtNotch THEN step(enigma.rotors[2]) ELSE enigma.rotors[2]
        middle == IF middleAtNotch THEN step(once) ELSE once
    IN [enigma EXCEPT !.rotors = <<left, middle, step(enigma.rotors[3])>>]

\* enigma.stepRotors(): the machine after the call.
stepRotors(enigma) ==
    LET middleAtNotch == atNotch(enigma.rotors[2])
        rightAtNotch == atNotch(enigma.rotors[3])
        left == IF middleAtNotch THEN step(enigma.rotors[1]) ELSE enigma.rotors[1]
        middle == IF middleAtNotch \/ (rightAtNotch /\ ~middleAtNotch)
                  THEN step(enigma.rotors[2])
                  ELSE enigma.rotors[2]
    IN [enigma EXCEPT !.rotors = <<left, middle, step(enigma.rotors[3])>>]

RECURSIVE ThroughForward(_, _, _)
\* for (i = rotors.length - 1; i >= 0; i--) c = rotors[i].forward(c), from i on.
ThroughForward(rotors, i, c) ==
    IF i < 1 THEN c ELSE ThroughForward(rotors, i - 1, forward(rotors[i], c))

RECURSIVE ThroughBackward(_, _, _)
\* for (i = 0; i < rotors.length; i++) c = rotors[i].backward(c), from i on.
ThroughBackward(rotors, i, c) ==
    IF i > Len(rotors) THEN c ELSE ThroughBackward(rotors, i + 1, backward(rotors[i], c))

\* enigma.encryptChar(c): the machine after the call and the char returned.
encryptChar(enigma, c) ==
    IF indexOf(alphabet, c) = -1 THEN [enigma |-> enigma, char |-> c]
    ELSE LET stepped == stepRotors(enigma)
             plugged == plugboardSwap(c, stepped.plugboardPairs)
             entered == ThroughForward(stepped.rotors, Len(stepped.rotors), plugged)
             reflected == REFLECTOR[indexOf(alphabet, entered) + 1]
             left == ThroughBackward(stepped.rotors, 1, reflected)
         IN [enigma |-> stepped,
             char |-> plugboardSwap(left, stepped.plugboardPairs)]

\* c.toUpperCase() for one char of the texts here.
toUpperCase(c) ==
    IF indexOf(LowerCase, c) = -1 THEN c ELSE alphabet[indexOf(LowerCase, c) + 1]

RECURSIVE EncryptChars(_, _, _)
\* .map((c) => this.encryptChar(c)) over chars, out being the chars so far.
EncryptChars(enigma, chars, out) ==
    IF chars = <<>> THEN [enigma |-> enigma, text |-> out]
    ELSE LET e == encryptChar(enigma, Head(chars))
         IN EncryptChars(e.enigma, Tail(chars), Append(out, e.char))

\* enigma.process(text): the machine after the call and the text returned.
process(enigma, text) ==
    EncryptChars(enigma, [i \in 1..Len(text) |-> toUpperCase(text[i])], <<>>)

(* The machines and texts of the Enigma specification. *)

\* rotorIDs: the order of the tests and a rearranged one.
EnigmaRotorIDs == {<<0, 1, 2>>, <<2, 0, 1>>}

\* rotorPositions: at rest, the tests' middle positions, and positions that
\* put the middle and the right rotor of either order at their notches.
EnigmaPositions == {<<0, 0, 0>>, <<5, 10, 15>>, <<16, 4, 21>>, <<25, 16, 4>>}

EnigmaRings == {<<0, 0, 0>>, <<3, 7, 11>>}

\* plugboardPairs: none, two disjoint pairs, two pairs that share a letter.
EnigmaPlugboards ==
    {<<>>, <<<<"A", "B">>, <<"C", "D">>>>, <<<<"A", "B">>, <<"B", "C">>>>}

\* The chars of the texts: letters on and off the plugboard, a lower-case
\* letter and a char that is not a letter.
EnigmaChars == {"A", "C", "I", "a", " "}

EnigmaTexts ==
    {<<>>} \cup {<<c>> : c \in EnigmaChars}
    \cup {<<c, d>> : c \in EnigmaChars, d \in EnigmaChars}

\* The chars a machine is given between its construction and the end of the
\* model's runs.
MaxTyped == 3

\* The machine the caller holds.
TheEnigma == heap[1]

\* The chars typed into the machine so far.
Typed == IF call = <<>> THEN 0 ELSE call.typed

\* After new Enigma(rotorIDs, rotorPositions, ringSettings, plugboardPairs).
EnigmaInit ==
    /\ heap \in {<<Enigma(ids, positions, rings, pairs)>> :
                    ids \in EnigmaRotorIDs, positions \in EnigmaPositions,
                    rings \in EnigmaRings, pairs \in EnigmaPlugboards}
    /\ call = <<>>
    /\ result = <<>>
    /\ previous = <<>>
    /\ legacyDate = NaN

\* enigma.process(text)
ProcessCall(text) ==
    /\ Typed + Len(text) <= MaxTyped
    /\ heap' = <<process(TheEnigma, text).enigma>>
    /\ call' = [method |-> "process", text |-> text, enigma |-> TheEnigma,
                typed |-> Typed + Len(text)]
    /\ result' = process(TheEnigma, text).text
    /\ UNCHANGED <<previous, legacyDate>>

\* enigma.encryptChar(c)
EncryptCharCall(c) ==
    /\ Typed + 1 <= MaxTyped
    /\ heap' = <<encryptChar(TheEnigma, c).enigma>>
    /\ call' = [method |-> "encryptChar", text |-> <<c>>, enigma |-> TheEnigma,
                typed |-> Typed + 1]
    /\ result' = <<encryptChar(TheEnigma, c).char>>
    /\ UNCHANGED <<previous, legacyDate>>

EnigmaNext ==
    \/ \E text \in EnigmaTexts : ProcessCall(text)
    \/ \E c \in EnigmaChars : EncryptCharCall(c)

EnigmaSpec == EnigmaInit /\ [][EnigmaNext]_vars

\* text.toUpperCase()
UpperText(text) == [i \in 1..Len(text) |-> toUpperCase(text[i])]

\* process has returned.
ProcessCalled == call # <<>> /\ call.method = "process"

\* No letter is in two places of the plugboard pairs.
DisjointPairs(pairs) ==
    \A i, j \in 1..Len(pairs) : \A k, l \in 1..2 :
        pairs[i][k] = pairs[j][l] => i = j /\ k = l

\* C21: a text that process has returned, given to process on a machine with
\* the settings the first one had before the call, comes back as the first
\* text in upper case.
C21_Symmetry ==
    ProcessCalled => process(call.enigma, result).text = UpperText(call.text)

\* What holds: encryption is its own inverse when the plugboard pairs share
\* no letter.
SymmetryOfDisjointPairs ==
    ProcessCalled /\ DisjointPairs(call.enigma.plugboardPairs)
        => process(call.enigma, result).text = UpperText(call.text)

\* A text with letters has been enciphered and deciphered on a plugboard of
\* disjoint pairs.
SymmetryReached ==
    /\ ProcessCalled
    /\ call.enigma.plugboardPairs = <<<<"A", "B">>, <<"C", "D">>>>
    /\ call.text = <<"a", "C">>
    /\ result # UpperText(call.text)
    /\ process(call.enigma, result).text = <<"A", "C">>

\* With the pairs AB and BC, C is enciphered as a letter that deciphers to
\* another letter than C.
SharedLetterBreaksSymmetry ==
    /\ ProcessCalled
    /\ call.enigma.plugboardPairs = <<<<"A", "B">>, <<"B", "C">>>>
    /\ call.text = <<"C">>
    /\ process(call.enigma, result).text # <<"C">>

(* --------------------------- the sea battle game ------------------------- *)
(* src/7/Board.js, src/7/Ship.js, src/7/Player.js, src/unnamed/part_005.     *)
(* A location is a string, a sequence of one-char strings; rows and columns  *)
(* count from 0.  A method that changes its object and returns a value is   *)
(* an operator whose value is both: the object after the call and what the   *)
(* call returned.                                                            *)

RECURSIVE DecimalString(_)
\* `${n}` for an integer n.
DecimalString(n) ==
    IF n < 0 THEN <<"-">> \o DecimalString(0 - n)
    ELSE IF n < 10 THEN <<ToString(n)>>
    ELSE DecimalString(n \div 10) \o <<ToString(n % 10)>>

\* new Ship(locations, length), for an array whose length is length > 0.
Ship(locations, length) ==
    [locations |-> locations, hits |-> [i \in 1..length |-> ""], length |-> length]

\* ship.hasLocation(location)
hasLocation(ship, location) ==
    \E i \in 1..Len(ship.locations) : ship.locations[i] = location

\* ship.locations.indexOf(location), counted from 1 here; 0 when absent.
LocationIndex(ship, location) ==
    IF hasLocation(ship, location)
    THEN CHOOSE i \in 1..Len(ship.locations) :
             /\ ship.locations[i] = location
             /\ \A j \in 1..(i - 1) : ship.locations[j] # location
    ELSE 0

\* ship.isHit(location)
isHit(ship, location) ==
    LocationIndex(ship, location) > 0 /\ ship.hits[LocationIndex(ship, location)] = "hit"

\* ship.hit(location) for a string: the ship after the call, the value returned.
hit(ship, location) ==
    LET index == LocationIndex(ship, location)
    IN IF index > 0 /\ ship.hits[index] # "hit"
       THEN [ship |-> [ship EXCEPT !.hits[index] = "hit"], returned |-> TRUE]
       ELSE [ship |-> ship, returned |-> FALSE]

\* ship.isSunk()
isSunk(ship) == \A i \in 1..Len(ship.hits) : ship.hits[i] = "hit"

\* new Board(size) for a number size: the board, or what the constructor throws.
Board(size) ==
    IF size <= 0 \/ size > 20
    THEN Thrown("Failed to create board: Board size must be a number between 1 and 20")
    ELSE [kind |-> "board", size |-> size,
          grid |-> [row \in 0..(size - 1) |-> [col \in 0..(size - 1) |-> "~"]],
          ships |-> <<>>]

\* board.isValidCoordinate(row, col)
isValidCoordinate(board, row, col) ==
    row >= 0 /\ row < board.size /\ col >= 0 /\ col < board.size

\* board.formatLocation(row, col)
formatLocation(row, col) == DecimalString(row) \o DecimalString(col)

\* board.parseLocation(location) for a string: {row, col}, or what it throws.
parseLocation(location) ==
    IF Len(location) # 2
    THEN Thrown("Failed to parse location: Location must be a 2-character string")
    ELSE LET row == ParseInt(<<<<location[1]>>>>, 1)
             col == ParseInt(<<<<location[2]>>>>, 1)
         IN IF row = <<>> \/ col = <<>>
            THEN Thrown("Failed to parse location: Location must contain valid digits")
            ELSE [row |-> row[1], col |-> col[1]]

\* board.getShipPositions(startRow, startCol, length, orientation)
getShipPositions(startRow, startCol, length, orientation) ==
    [i \in 1..length |->
        [row |-> IF orientation = "horizontal" THEN startRow ELSE startRow + (i - 1),
         col |-> IF orientation = "horizontal" THEN startCol + (i - 1) ELSE startCol]]

\* canPlaceShip that looks at the grid only, not at the ships.
canPlaceShip_GridOnly(board, startRow, startCol, length, orientation) ==
    LET positions == getShipPositions(startRow, startCol, length, orientation)
    IN \A i \in 1..Len(positions) :
           /\ isValidCoordinate(board, positions[i].row, positions[i].col)
           /\ board.grid[positions[i].row][positions[i].col] = "~"

\* board.canPlaceShip(startRow, startCol, length, orientation)
canPlaceShip(board, startRow, startCol, length, orientation) ==
    LET positions == getShipPositions(startRow, startCol, length, orientation)
    IN \A i \in 1..Len(positions) :
           /\ isValidCoordinate(board, positions[i].row, positions[i].col)
           /\ board.grid[positions[i].row][positions[i].col] = "~"
           /\ \A s \in 1..Len(board.ships) :
                  ~hasLocation(board.ships[s],
                               formatLocation(positions[i].row, positions[i].col))

RECURSIVE ShowOnGrid(_, _, _)
\* positions.forEach(({row, col}) => grid[row][col] = 'S'), from position i on.
ShowOnGrid(grid, positions, i) ==
    IF i > Len(positions) THEN grid
    ELSE ShowOnGrid([grid EXCEPT ![positions[i].row][positions[i].col] = "S"],
                    positions, i + 1)

\* board.placeShip(startRow, startCol, length, orientation, showOnGrid): the
\* board after the call and the value returned, or what new Ship throws.
placeShip(board, startRow, startCol, length, orientation, showOnGrid) ==
    LET positions == getShipPositions(startRow, startCol, length, orientation)
        locations == [i \in 1..Len(positions) |->
                         formatLocation(positions[i].row, positions[i].col)]
    IN IF ~canPlaceShip(board, startRow, startCol, length, orientation)
       THEN [board |-> board, returned |-> Bool(FALSE)]
       ELSE IF length <= 0
       THEN [board |-> board,
             returned |-> Thrown("Failed to create ship: Ship length must be a positive number")]
       ELSE [board |-> [board EXCEPT
                           !.ships = Append(@, Ship(locations, length)),
                           !.grid = IF showOnGrid THEN ShowOnGrid(@, positions, 1) ELSE @],
             returned |-> Bool(TRUE)]

\* Math.floor(Math.random() * limit): Math.random() is any number from 0 up
\* to but not 1, so the product lies from 0 up to limit, or down to limit
\* when limit is negative.
RandomBelow(limit) == IF limit > 0 THEN 0..(limit - 1) ELSE limit..0

\* The <<orientation, startRow, startCol>> an attempt of placeShipsRandomly
\* can draw.
RandomAttempts(board, shipLength) ==
    UNION {{<<orientation, startRow, startCol>> :
               startRow \in RandomBelow(IF orientation = "horizontal" THEN board.size
                                        ELSE board.size - shipLength + 1),
               startCol \in RandomBelow(IF orientation = "horizontal"
                                        THEN board.size - shipLength + 1
                                        ELSE board.size)} :
           orientation \in {"horizontal", "vertical"}}

\* The boards one attempt of placeShipsRandomly that places a ship leaves.
RandomlyPlaced(board, shipLength, showOnGrid) ==
    {placeShip(board, a[2], a[3], shipLength, a[1], showOnGrid).board :
        a \in {t \in RandomAttempts(board, shipLength) :
                  canPlaceShip(board, t[2], t[3], shipLength, t[1])}}

\* An attempt of placeShipsRandomly can fail on the board.
AttemptCanFail(board, shipLength) ==
    \E t \in RandomAttempts(board, shipLength) :
        ~canPlaceShip(board, t[2], t[3], shipLength, t[1])

RECURSIVE AfterPlacing(_, _, _, _)
\* The boards the loop of placeShipsRandomly can leave once it has placed
\* placedShips more ships.
AfterPlacing(board, placedShips, shipLength, showOnGrid) ==
    IF placedShips = 0 THEN {board}
    ELSE UNION {AfterPlacing(b, placedShips - 1, shipLength, showOnGrid) :
                   b \in RandomlyPlaced(board, shipLength, showOnGrid)}

\* board.placeShipsRandomly(numShips, shipLength, showOnGrid) for numShips up
\* to maxAttempts and shipLength > 0: the outcomes of the call.  It returns
\* true once numShips ships are placed; it returns false with fewer when
\* every attempt that is left fails.
placeShipsRandomly(board, numShips, shipLength, showOnGrid) ==
    {[board |-> b, returned |-> Bool(TRUE)] :
        b \in AfterPlacing(board, numShips, shipLength, showOnGrid)}
    \cup UNION {{[board |-> b, returned |-> Bool(FALSE)] :
                    b \in {a \in AfterPlacing(board, placedShips, shipLength, showOnGrid) :
                              AttemptCanFail(a, shipLength)}} :
                placedShips \in 0..(numShips - 1)}

RECURSIVE HitShips(_, _, _)
\* for (const ship of ships) if (ship.hasLocation(location)) if
\* (ship.hit(location)) ..., from ship s on: the ships after the loop, and the
\* ship that was hit (0 for none).
HitShips(ships, location, s) ==
    IF s > Len(ships) THEN [ships |-> ships, ship |-> 0]
    ELSE IF hasLocation(ships[s], location) /\ hit(ships[s], location).returned
    THEN [ships |-> [ships EXCEPT ![s] = hit(ships[s], location).ship], ship |-> s]
    ELSE HitShips(ships, location, s + 1)

\* The cell was hit; a miss is forgotten.
AlreadyAttacked_HitsOnly(board, row, col) == board.grid[row][col] = "X"

\* grid[row][col] === 'X' || grid[row][col] === 'O'
AlreadyAttacked(board, row, col) == board.grid[row][col] \in {"X", "O"}

\* board.processAttack(location): the board after the call, the value returned.
processAttack(board, location) ==
    LET parsed == parseLocation(location)
    IN IF IsThrown(parsed)
       THEN [board |-> board,
             returned |-> [valid |-> FALSE, message |-> "Attack failed: " \o parsed.thrown]]
       ELSE IF ~isValidCoordinate(board, parsed.row, parsed.col)
       THEN [board |-> board,
             returned |-> [valid |-> FALSE, message |-> "Invalid coordinates"]]
       ELSE IF AlreadyAttacked(board, parsed.row, parsed.col)
       THEN [board |-> board,
             returned |-> [valid |-> FALSE, message |-> "Already attacked this location"]]
       ELSE LET struck == HitShips(board.ships, location, 1)
            IN IF struck.ship > 0
               THEN [board |-> [board EXCEPT !.ships = struck.ships,
                                             !.grid[parsed.row][parsed.col] = "X"],
                     returned |-> [valid |-> TRUE, hit |-> TRUE,
                                   sunk |-> isSunk(struck.ships[struck.ship]),
                                   message |-> IF isSunk(struck.ships[struck.ship])
                                               THEN "Ship sunk!" ELSE "Hit!"]]
               ELSE [board |-> [board EXCEPT !.grid[parsed.row][parsed.col] = "O"],
                     returned |-> [valid |-> TRUE, hit |-> FALSE, sunk |-> FALSE,
                                   message |-> "Miss!"]]

\* board.getRemainingShips()
getRemainingShips(board) ==
    Cardinality({s \in 1..Len(board.ships) : ~isSunk(board.ships[s])})

\* board.getAllSunk()
getAllSunk(board) ==
    Len(board.ships) > 0 /\ \A s \in 1..Len(board.ships) : isSunk(board.ships[s])

(* The boards and calls of the Board specification. *)

BoardSizes == {2, 3}

\* The ships a board of the model gets at most.
MaxShips == 2

\* The cells of a board of the model that are attacked at most.
MaxAttacked == 2

\* startRow and startCol of the placeShip calls.
PlaceStarts == {<<0, 0>>, <<1, 1>>, <<2, 1>>, <<-1, 0>>}

\* length of the placeShip calls: none, one cell, two cells.
ShipLengths == {0, 1, 2}

\* shipLength of the placeShipsRandomly calls: a ship that fits and one
\* longer than the boards.
RandomLengths == {2, 4}

\* The locations processAttack is called with: cells of both boards, a cell
\* of the larger board only, and strings that are no locations.
AttackLocations ==
    {<<"0", "0">>, <<"0", "1">>, <<"1", "1">>, <<"2", "2">>,
     <<"0", "a">>, <<"0">>, <<"0", "0", "1">>}

\* The board the caller holds.
TheBoard == heap[1]

\* The cells of the board that were attacked.
Attacked(board) ==
    {<<row, col>> \in (0..(board.size - 1)) \X (0..(board.size - 1)) :
        board.grid[row][col] \in {"X", "O"}}

\* After new Board(size).
BoardInit ==
    /\ heap \in {<<Board(size)>> : size \in BoardSizes}
    /\ call = <<>>
    /\ result = <<>>
    /\ previous = <<>>
    /\ legacyDate = NaN

\* A call of a method of the board, whose outcome is the board after it and
\* the value returned.
BoardCall(method, args, outcome) ==
    /\ heap' = <<outcome.board>>
    /\ call' = [method |-> method, args |-> args, board |-> TheBoard]
    /\ result' = outcome.returned
    /\ UNCHANGED <<previous, legacyDate>>

\* board.placeShip(startRow, startCol, length, orientation, showOnGrid)
PlaceShipCall(start, length, orientation, showOnGrid) ==
    /\ Len(TheBoard.ships) < MaxShips
    /\ BoardCall("placeShip", <<start[1], start[2], length, orientation, showOnGrid>>,
                 placeShip(TheBoard, start[1], start[2], length, orientation, showOnGrid))

\* board.placeShipsRandomly(numShips, shipLength, showOnGrid)
PlaceShipsRandomlyCall(numShips, shipLength, showOnGrid) ==
    /\ Len(TheBoard.ships) + numShips <= MaxShips
    /\ \E outcome \in placeShipsRandomly(TheBoard, numShips, shipLength, showOnGrid) :
           BoardCall("placeShipsRandomly", <<numShips, shipLength, showOnGrid>>, outcome)

\* board.processAttack(location)
ProcessAttackCall(location) ==
    /\ Cardinality(Attacked(processAttack(TheBoard, location).board)) <= MaxAttacked
    /\ BoardCall("processAttack", <<location>>, processAttack(TheBoard, location))

BoardNext ==
    \/ \E start \in PlaceStarts, length \in ShipLengths,
          orientation \in {"horizontal", "vertical"}, showOnGrid \in BOOLEAN :
           PlaceShipCall(start, length, orientation, showOnGrid)
    \/ \E numShips \in 1..MaxShips, shipLength \in RandomLengths,
          showOnGrid \in BOOLEAN :
           PlaceShipsRandomlyCall(numShips, shipLength, showOnGrid)
    \/ \E location \in AttackLocations : ProcessAttackCall(location)

BoardSpec == BoardInit /\ [][BoardNext]_vars

(* Claims about the board. *)

\* A method of the board has returned.
BoardCalled(method) == call # <<>> /\ call.method = method

\* The cells of a board.
Cells(board) == (0..(board.size - 1)) \X (0..(board.size - 1))

\* The location is a cell of the board that was attacked.
WasAttacked(board, location) ==
    /\ ~IsThrown(parseLocation(location))
    /\ <<parseLocation(location).row, parseLocation(location).col>> \in Attacked(board)

\* The places <<ship, index>> of the hits of the ships of a board.
HitPlaces(board) ==
    UNION {{<<s, i>> : i \in {j \in 1..Len(board.ships[s].hits) :
                                 board.ships[s].hits[j] = "hit"}} :
           s \in 1..Len(board.ships)}

\* C22: processAttack on a location that was attacked returns {valid: false,
\* message: 'Already attacked this location'} and changes neither the grid
\* nor the hits of a ship; an attack changes no cell that was attacked, at
\* most one cell, and that one from '~' or 'S' to 'X' or 'O'; a hit of a ship
\* stays, and an attack adds at most one, at a cell that becomes 'X'.
C22_AttackOnce ==
    BoardCalled("processAttack")
        => /\ WasAttacked(call.board, call.args[1])
               => /\ result = [valid |-> FALSE, message |-> "Already attacked this location"]
                  /\ TheBoard = call.board
           /\ \A cell \in Attacked(call.board) :
                  TheBoard.grid[cell[1]][cell[2]] = call.board.grid[cell[1]][cell[2]]
           /\ Cardinality({cell \in Cells(TheBoard) :
                  TheBoard.grid[cell[1]][cell[2]] # call.board.grid[cell[1]][cell[2]]}) <= 1
           /\ \A cell \in Cells(TheBoard) :
                  TheBoard.grid[cell[1]][cell[2]] # call.board.grid[cell[1]][cell[2]]
                      => /\ call.board.grid[cell[1]][cell[2]] \in {"~", "S"}
                         /\ TheBoard.grid[cell[1]][cell[2]] \in {"X", "O"}
           /\ HitPlaces(call.board) \subseteq HitPlaces(TheBoard)
           /\ Cardinality(HitPlaces(TheBoard) \ HitPlaces(call.board)) <= 1
           /\ \A place \in HitPlaces(TheBoard) \ HitPlaces(call.board) :
                  /\ TheBoard.ships[place[1]].locations[place[2]] = call.args[1]
                  /\ ~WasAttacked(call.board, call.args[1])
                  /\ result.valid /\ result.hit

\* A cell where a ship was hit and a cell where an attack missed have both
\* been attacked again.
C22_Witness ==
    /\ BoardCalled("processAttack")
    /\ WasAttacked(call.board, call.args[1])
    /\ \E cell \in Attacked(call.board) : call.board.grid[cell[1]][cell[2]] = "X"
    /\ \E cell \in Attacked(call.board) : call.board.grid[cell[1]][cell[2]] = "O"
    /\ result.message = "Already attacked this location"

\* The places <<ship, index>> of the locations of the ships of a board.
ShipPlaces(board) ==
    UNION {{<<s, i>> : i \in 1..Len(board.ships[s].locations)} :
           s \in 1..Len(board.ships)}

\* The location at a place.
LocationAt(board, place) == board.ships[place[1]].locations[place[2]]

\* C23: every location of every ship is a cell of the board and no location
\* belongs to two ships (or twice to one); a placeShip call that returned
\* false left the ships and the grid as they were.
C23_Placement ==
    /\ \A place \in ShipPlaces(TheBoard) :
           \E cell \in Cells(TheBoard) :
               LocationAt(TheBoard, place) = formatLocation(cell[1], cell[2])
    /\ \A p, q \in ShipPlaces(TheBoard) :
           LocationAt(TheBoard, p) = LocationAt(TheBoard, q) => p = q
    /\ BoardCalled("placeShip") /\ result = Bool(FALSE) => TheBoard = call.board

\* placeShip has refused a ship of two cells that lies on the board, over
\* cells that show water, because the hidden ship of the board is there.
C23_Witness ==
    /\ BoardCalled("placeShip")
    /\ result = Bool(FALSE)
    /\ Len(TheBoard.ships) = 1
    /\ \A cell \in Cells(TheBoard) : TheBoard.grid[cell[1]][cell[2]] = "~"
    /\ canPlaceShip_GridOnly(call.board, call.args[1], call.args[2], call.args[3], call.args[4])
    /\ call.args[3] = 2

\* placeShipsRandomly has returned false with fewer ships than asked for, and
\* has returned true with both.
RandomPlacementFailed ==
    /\ BoardCalled("placeShipsRandomly")
    /\ result = Bool(FALSE)
    /\ call.args[1] = 2
    /\ Len(TheBoard.ships) = Len(call.board.ships) + 1

\* placeShip has thrown for a ship of no cell.
EmptyShipThrown ==
    /\ BoardCalled("placeShip")
    /\ IsThrown(result)
    /\ TheBoard = call.board

(* The CPU player, src/unnamed/part_005, on the Player of src/7/Player.js. *)

\* new CPUPlayer(name, boardSize): the name is left out.
CPUPlayer(boardSize) ==
    [kind |-> "cpu", board |-> Board(boardSize), opponentBoard |-> Board(boardSize),
     guesses |-> <<>>, mode |-> "hunt", targetQueue |-> <<>>]

maxAttempts == 1000

\* array.includes(location)
includes(array, location) == \E i \in 1..Len(array) : array[i] = location

\* The locations cpu.generateRandomGuess() can return.
generateRandomGuess(cpu) ==
    {formatLocation(row, col) :
        row \in RandomBelow(cpu.board.size), col \in RandomBelow(cpu.board.size)}

RECURSIVE ScanColumns(_, _, _)
\* The inner loop of the fallback of makeGuess, from column col on: the first
\* location of the row that is not among the guesses, <<>> when there is none.
ScanColumns(cpu, row, col) ==
    IF col >= cpu.board.size THEN <<>>
    ELSE IF ~includes(cpu.guesses, formatLocation(row, col))
    THEN <<formatLocation(row, col)>>
    ELSE ScanColumns(cpu, row, col + 1)

RECURSIVE ScanRows(_, _, _)
\* The outer loop of the fallback of makeGuess, from row on: guessLocation
\* after it.
ScanRows(cpu, row, guessLocation) ==
    IF row >= cpu.board.size THEN guessLocation
    ELSE LET found == ScanColumns(cpu, row, 0)
             location == IF found = <<>> THEN guessLocation ELSE found[1]
         IN IF location # <<>> /\ ~includes(cpu.guesses, location) THEN location
            ELSE ScanRows(cpu, row + 1, location)

\* The end of makeGuess, after the do-while loop: the player after the call,
\* the location returned, and the attempts the call counted.
EndOfGuess(cpu, guessLocation, attempts) ==
    LET location == IF attempts >= maxAttempts THEN ScanRows(cpu, 0, guessLocation)
                    ELSE guessLocation
    IN [cpu |-> [cpu EXCEPT !.guesses = Append(@, location)], returned |-> location,
        attempts |-> attempts]

\* The do-while loop of makeGuess once the player hunts, with the attempts
\* made so far, and what follows it.  An iteration draws a location and
\* counts an attempt; the loop goes round again while the location drawn is
\* among the guesses and attempts < maxAttempts, so it ends at this attempt,
\* or, when a guessed location can be drawn, at a later one: before the last
\* attempt that leaves what this attempt leaves, at the last attempt it ends
\* with whatever is drawn.
HuntLoop(hunting, attempts) ==
    LET drawn == generateRandomGuess(hunting)
        guessed == {guessLocation \in drawn : includes(hunting.guesses, guessLocation)}
        round == IF attempts + 1 < maxAttempts THEN guessed ELSE {}
    IN {EndOfGuess(hunting, guessLocation, attempts + 1) : guessLocation \in drawn \ round}
       \cup (IF round = {} THEN {}
             ELSE {EndOfGuess(hunting, guessLocation, maxAttempts) : guessLocation \in drawn})

RECURSIVE GuessLoop(_, _)
\* The loop without the look at the guesses: a queued target is returned as
\* it is.
GuessLoop_AnyTarget(cpu, attempts) ==
    IF cpu.mode = "target" /\ cpu.targetQueue # <<>>
    THEN {EndOfGuess([cpu EXCEPT !.targetQueue = Tail(@)], Head(cpu.targetQueue),
                     attempts + 1)}
    ELSE HuntLoop([cpu EXCEPT !.mode = "hunt"], attempts)

\* The do-while loop of makeGuess from the top of an iteration, with the
\* attempts made so far, and what follows it: the outcomes of the call.
GuessLoop(cpu, attempts) ==
    IF cpu.mode = "target" /\ cpu.targetQueue # <<>>
    THEN LET guessLocation == Head(cpu.targetQueue)
             shifted == [cpu EXCEPT !.targetQueue = Tail(@)]
         IN IF includes(cpu.guesses, guessLocation)
            THEN LET hunting == IF shifted.targetQueue = <<>>
                                THEN [shifted EXCEPT !.mode = "hunt"]
                                ELSE shifted
                 IN IF attempts < maxAttempts
                    THEN GuessLoop(hunting, attempts)
                    ELSE {EndOfGuess(hunting, guessLocation, attempts)}
            ELSE {EndOfGuess(shifted, guessLocation, attempts + 1)}
    ELSE HuntLoop([cpu EXCEPT !.mode = "hunt"], attempts)

\* cpu.makeGuess(): the outcomes of the call, each the player after it and
\* the location returned.
makeGuess(cpu) == GuessLoop(cpu, 0)

\* cpu.updateOpponentBoard(location, result): the player after the call, or
\* what it throws.  A column off the board adds a property to the row.
updateOpponentBoard(cpu, location, attackResult) ==
    LET parsed == parseLocation(location)
    IN IF IsThrown(parsed) THEN parsed
       ELSE IF parsed.row < 0 \/ parsed.row >= cpu.opponentBoard.size
       THEN Thrown("TypeError")
       ELSE [cpu EXCEPT !.opponentBoard.grid[parsed.row] =
                            (parsed.col :> (IF attackResult.hit THEN "X" ELSE "O")) @@ @]

RECURSIVE PushTargets(_, _, _)
\* adjacentPositions.forEach(...) of addAdjacentTargets, from position i on.
PushTargets(cpu, adjacentPositions, i) ==
    IF i > Len(adjacentPositions) THEN cpu
    ELSE LET adjLocation == formatLocation(adjacentPositions[i].row,
                                           adjacentPositions[i].col)
         IN IF /\ isValidCoordinate(cpu.board, adjacentPositions[i].row,
                                    adjacentPositions[i].col)
               /\ ~includes(cpu.guesses, adjLocation)
               /\ ~includes(cpu.targetQueue, adjLocation)
            THEN PushTargets([cpu EXCEPT !.targetQueue = Append(@, adjLocation)],
                             adjacentPositions, i + 1)
            ELSE PushTargets(cpu, adjacentPositions, i + 1)

\* cpu.addAdjacentTargets(location), for a location that parses.
addAdjacentTargets(cpu, location) ==
    LET row == parseLocation(location).row
        col == parseLocation(location).col
    IN PushTargets(cpu, <<[row |-> row - 1, col |-> col], [row |-> row + 1, col |-> col],
                          [row |-> row, col |-> col - 1], [row |-> row, col |-> col + 1]>>, 1)

\* processAttackResult with the target queue kept when a ship is sunk.
processAttackResult_KeepQueue(cpu, location, attackResult) ==
    LET updated == updateOpponentBoard(cpu, location, attackResult)
    IN IF IsThrown(updated) THEN [cpu |-> cpu, returned |-> updated]
       ELSE [cpu |-> IF attackResult.hit
                     THEN IF attackResult.sunk
                          THEN [updated EXCEPT !.mode = "hunt"]
                          ELSE addAdjacentTargets([updated EXCEPT !.mode = "target"],
                                                  location)
                     ELSE IF updated.mode = "target" /\ updated.targetQueue = <<>>
                     THEN [updated EXCEPT !.mode = "hunt"]
                     ELSE updated,
             returned |-> Undefined]

\* cpu.processAttackResult(location, result): the player after the call and
\* the value returned, undefined or what the call throws.
processAttackResult(cpu, location, attackResult) ==
    LET updated == updateOpponentBoard(cpu, location, attackResult)
    IN IF IsThrown(updated) THEN [cpu |-> cpu, returned |-> updated]
       ELSE [cpu |-> IF attackResult.hit
                     THEN IF attackResult.sunk
                          THEN [updated EXCEPT !.mode = "hunt", !.targetQueue = <<>>]
                          ELSE addAdjacentTargets([updated EXCEPT !.mode = "target"],
                                                  location)
                     ELSE IF updated.mode = "target" /\ updated.targetQueue = <<>>
                     THEN [updated EXCEPT !.mode = "hunt"]
                     ELSE updated,
             returned |-> Undefined]

(* The players and calls of the CPU specification. *)

CPUSizes == {2, 3}

\* The guesses a player of the model has at most.
MaxGuesses == 3

\* The location processAttackResult is called with besides the guess that
\* makeGuess has just returned: a corner of the smaller board, the middle of
\* the larger one.
ResultLocations == {<<"1", "1">>}

\* The results of an attack: a miss, a hit, a hit that sinks.
AttackResults ==
    {[hit |-> FALSE, sunk |-> FALSE], [hit |-> TRUE, sunk |-> FALSE],
     [hit |-> TRUE, sunk |-> TRUE]}

\* The player the caller holds.
TheCPU == heap[1]

\* After new CPUPlayer(name, boardSize).
CPUInit ==
    /\ heap \in {<<CPUPlayer(size)>> : size \in CPUSizes}
    /\ call = <<>>
    /\ result = <<>>
    /\ previous = <<>>
    /\ legacyDate = NaN

\* A call of a method of the player, whose outcome is the player after it
\* and the value returned; attempts is the count of makeGuess (0 elsewhere).
CPUCall(method, args, outcome) ==
    /\ heap' = <<outcome.cpu>>
    /\ call' = [method |-> method, args |-> args, cpu |-> TheCPU,
                attempts |-> outcome.attempts]
    /\ result' = outcome.returned
    /\ UNCHANGED <<previous, legacyDate>>

\* A method of the player has returned.
CPUCalled(method) == call # <<>> /\ call.method = method

\* cpu.makeGuess()
MakeGuessCall ==
    /\ Len(TheCPU.guesses) < MaxGuesses
    /\ \E outcome \in makeGuess(TheCPU) : CPUCall("makeGuess", <<>>, outcome)

\* cpu.processAttackResult(location, result): as the game calls it, with the
\* guess makeGuess has just returned, and as the tests call it, with a
\* location of their own, here before the first guess.
ProcessAttackResultCall(location, attackResult) ==
    /\ \/ CPUCalled("makeGuess") /\ location = result
       \/ location \in ResultLocations /\ TheCPU.guesses = <<>>
    /\ CPUCall("processAttackResult", <<location, attackResult>>,
               processAttackResult(TheCPU, location, attackResult) @@ [attempts |-> 0])

\* cpu.guesses.push(location), as the tests of makeGuess do with a location
\* that is in the target queue (src/8/test_report.md, 3975-3984).
GuessesPush(location) ==
    /\ Len(TheCPU.guesses) < MaxGuesses
    /\ CPUCalled("processAttackResult")
    /\ includes(TheCPU.targetQueue, location)
    /\ ~includes(TheCPU.guesses, location)
    /\ CPUCall("guesses.push", <<location>>,
               [cpu |-> [TheCPU EXCEPT !.guesses = Append(@, location)],
                returned |-> Undefined, attempts |-> 0])

CPUNext ==
    \/ MakeGuessCall
    \/ \E location \in ResultLocations \cup generateRandomGuess(TheCPU),
          attackResult \in AttackResults :
           ProcessAttackResultCall(location, attackResult)
    \/ \E location \in generateRandomGuess(TheCPU) : GuessesPush(location)

CPUSpec == CPUInit /\ [][CPUNext]_vars

(* Claims about the CPU player. *)

\* The locations of the cells of the board of a player.
BoardLocations(cpu) ==
    {formatLocation(cell[1], cell[2]) : cell \in Cells(cpu.board)}

\* No location occurs twice in the array.
NoDuplicate(array) == \A i, j \in 1..Len(array) : array[i] = array[j] => i = j

\* C24: while a cell of the board is not among the guesses, makeGuess has an
\* outcome, and it returns the location of a cell of the board that was not
\* among the guesses, which is all it appends to them; the guesses hold no
\* duplicate.
C24_NoRepeatedGuess ==
    /\ (\E location \in BoardLocations(TheCPU) : ~includes(TheCPU.guesses, location))
           => makeGuess(TheCPU) # {}
    /\ (CPUCalled("makeGuess")
        /\ \E location \in BoardLocations(call.cpu) : ~includes(call.cpu.guesses, location))
           => /\ result \in BoardLocations(call.cpu)
              /\ ~includes(call.cpu.guesses, result)
              /\ TheCPU.guesses = Append(call.cpu.guesses, result)
    /\ NoDuplicate(TheCPU.guesses)

\* makeGuess has been called in target mode with a first queued target that
\* had been guessed meanwhile, and has returned a location that follows it
\* in the queue.
C24_Witness ==
    /\ CPUCalled("makeGuess")
    /\ call.cpu.mode = "target"
    /\ Len(call.cpu.targetQueue) > 1
    /\ includes(call.cpu.guesses, Head(call.cpu.targetQueue))
    /\ includes(Tail(call.cpu.targetQueue), result)
    /\ TheCPU.mode = "target"

\* makeGuess has drawn guessed locations up to the last attempt and has
\* scanned past a first row that was guessed throughout.
FallbackScanReached ==
    /\ CPUCalled("makeGuess")
    /\ call.attempts = maxAttempts
    /\ \A col \in 0..(call.cpu.board.size - 1) :
           includes(call.cpu.guesses, formatLocation(0, col))
    /\ result = formatLocation(1, 0)

\* makeGuess has found the target queue used up by guessed targets and has
\* gone back to hunting.
QueueExhausted ==
    /\ CPUCalled("makeGuess")
    /\ call.cpu.mode = "target"
    /\ call.cpu.targetQueue # <<>>
    /\ \A i \in 1..Len(call.cpu.targetQueue) :
           includes(call.cpu.guesses, call.cpu.targetQueue[i])
    /\ TheCPU.mode = "hunt"
    /\ TheCPU.targetQueue = <<>>

(* ----------------------- ObjectValidator.partial ------------------------ *)

\* ObjectValidator.partial on validator id of heap h: validator.optional()
\* is called on every validator of this.schema, and optional() sets the flag
\* of the validator it is called on and returns this, so partialSchema holds
\* the validators of this.schema themselves.  The new ObjectValidator is the
\* last of the heap.
partial(h, id) ==
    LET schema == h[id].schema
        children == {schema[i][2] : i \in DOMAIN schema}
    IN Append([k \in DOMAIN h |-> IF k \in children THEN optional(h[k]) ELSE h[k]],
              SchemaObject(schema))

\* The object validators partial is called on, with their fields below them.
PartialScenarios ==
    {<<SchemaString, SchemaNumber, SchemaObject(<<<<"name", 1>>, <<"1", 2>>>>)>>,
     <<email(SchemaString), SchemaObject(<<<<"email", 1>>>>)>>,
     <<SchemaString, optional(SchemaNumber), SchemaObject(<<<<"name", 1>>, <<"1", 2>>>>)>>}

\* The inputs of validate: with every field, with one field, with none.
PartialValues ==
    {Obj(EmptyProps), Obj1("name", Str(<<"a">>)), Obj1("email", GoodEmail),
     Obj2("name", Str(<<"a">>), "1", Num(2, 0)), Undefined}

\* The most validators partial() has derived.
MaxDerived == 2

\* v of const v = Schema.object({...}): the first object validator.
OriginalValidator == CHOOSE id \in DOMAIN heap :
    /\ heap[id].kind = "object"
    /\ \A other \in 1..(id - 1) : heap[other].kind # "object"

\* The validators that v.partial() has returned.
DerivedValidators == {id \in DOMAIN heap : id > OriginalValidator}

PartialInit ==
    /\ heap \in PartialScenarios
    /\ call = <<>>
    /\ result = <<>>
    /\ previous = <<>>
    /\ legacyDate = NaN

\* v.partial()
PartialCall ==
    /\ Cardinality(DerivedValidators) < MaxDerived
    /\ heap' = partial(heap, OriginalValidator)
    /\ call' = <<>>
    /\ result' = <<>>
    /\ previous' = <<>>
    /\ UNCHANGED legacyDate

PartialNext ==
    \/ PartialCall
    \/ \E value \in PartialValues : ValidateCall(OriginalValidator, value, "")
    \/ \E id \in DerivedValidators, value \in PartialValues : ValidateCall(id, value, "")

PartialSpec == PartialInit /\ [][PartialNext]_vars

\* What validator id of heap h returns for every input of the model.
Validates(h, id) == [value \in PartialValues |-> Validate(h, id, value, "").result]

\* C25: a call of v.partial() leaves v, and every validator of v's schema,
\* validating exactly as before the call.
C25_PartialLeavesOriginal ==
    [][Len(heap') > Len(heap) =>
          \A id \in 1..OriginalValidator : Validates(heap', id) = Validates(heap, id)]_vars

\* C25, the case the claim names: after v.partial(), v still fails an input
\* that lacks a field that was required with a REQUIRED error.
C25_StillRequired ==
    (/\ Called
     /\ TheCall.id = OriginalValidator
     /\ DerivedValidators # {}
     /\ TheCall.value = Obj(EmptyProps))
        => (~TheResult.success /\ "REQUIRED" \in {TheResult.errors[i].code : i \in DOMAIN TheResult.errors})

\* The part of C25 that the code keeps: the validator partial() returns
\* accepts an object without any field.
DerivedTreatsFieldsOptional ==
    (Called /\ TheCall.id \in DerivedValidators /\ TheCall.value = Obj(EmptyProps))
        => TheResult.success

\* v.validate({}) after v.partial().
OriginalValidatedAfterPartial ==
    /\ Called
    /\ TheCall.id = OriginalValidator
    /\ DerivedValidators # {}
    /\ TheCall.value = Obj(EmptyProps)
    /\ TheResult.success

\* partial().validate({}).
DerivedValidated ==
    /\ Called
    /\ TheCall.id \in DerivedValidators
    /\ TheCall.value = Obj(EmptyProps)

(* ------------------------ CurrencyValue.originalString ------------------ *)

\* A validate call of a currency validator that succeeded with a
\* CurrencyValue as its data.
CurrencySucceeded ==
    /\ CurrencyCall
    /\ ~IsThrown(TheResult)
    /\ TheResult.success
    /\ TheResult.data.t = "object"

\* data.originalString of the call.
OriginalString == TheResult.data.props["originalString"].s

\* C26: on every successful currency validation data.originalString is the
\* string passed to validate, character for character, leading, trailing and
\* repeated internal whitespace included.
C26_OriginalStringIsRawInput ==
    CurrencySucceeded => OriginalString = TheCall.value.s

\* What the code keeps: originalString is the input without its leading and
\* trailing whitespace; whitespace inside it is kept as it was passed.
OriginalStringIsTrimmedInput ==
    CurrencySucceeded => OriginalString = Trim(TheCall.value.s)

\* A successful validation of an input that starts or ends with whitespace.
PaddedInputSucceeded ==
    /\ CurrencySucceeded
    /\ TheCall.value.s # Trim(TheCall.value.s)

\* A successful validation of an input with repeated whitespace inside.
RepeatedWhitespaceKept ==
    /\ CurrencySucceeded
    /\ TheCall.value.s = <<"$", " ", " ", "2">>
    /\ OriginalString = <<"$", " ", " ", "2">>

(* ------------------- the messages of email() and url() ------------------ *)

\* The values a string validator is given here.
EmailValues ==
    {Undefined, Num(2, 0), Str(<<"a">>), BadEmail, GoodEmail,
     Str(<<"h", "t", "t", "p", ":", "/", "/", "a">>)}

EmailInit ==
    /\ heap = <<SchemaString>>
    /\ call = <<>>
    /\ result = <<>>
    /\ previous = <<>>
    /\ legacyDate = NaN

\* A string validator on which withMessage is never called: its custom
\* message, if any, is the one email() or url() installed.
EmailNext ==
    \/ Configure(Root, email(heap[Root]))
    \/ Configure(Root, url(heap[Root]))
    \/ \E length \in MinLengths : Configure(Root, minLength(heap[Root], length))
    \/ \E length \in MaxLengths : Configure(Root, maxLength(heap[Root], length))
    \/ \E value \in EmailValues : ValidateCall(Root, value, "")

EmailSpec == EmailInit /\ [][EmailNext]_vars

\* The messages email() and url() install.
FormatMessages == {"Invalid email format", "Invalid URL format"}

\* The errors of the call, as a set.
TheErrors == {TheResult.errors[i] : i \in DOMAIN TheResult.errors}

\* C27: the message email() or url() installed is carried by
\* PATTERN_MISMATCH errors only, the other errors of the validator keep
\* their own default messages, and after email() followed by url() a pattern
\* mismatch carries the URL message.
C27_FormatMessageOnPatternOnly ==
    Called =>
        /\ \A e \in TheErrors : e.code # "PATTERN_MISMATCH" => e.message \notin FormatMessages
        /\ \A e \in TheErrors :
              (/\ e.code = "PATTERN_MISMATCH"
               /\ RootValidator.regexPattern = <<RegExp(UrlSource, FALSE)>>)
                 => e.message = "Invalid URL format"

\* What the code does: once email() or url() was called, every error of the
\* validator, whatever its code, carries the message of the first of them.
EveryErrorCarriesFormatMessage ==
    (Called /\ IsSet(RootValidator.customMessage))
        => \A e \in TheErrors : e.message = RootValidator.customMessage[1]

\* A REQUIRED or INVALID_TYPE error of a validator after email().
OtherErrorAfterEmail ==
    /\ Called
    /\ RootValidator.customMessage = <<"Invalid email format">>
    /\ \E e \in TheErrors : e.code \in {"REQUIRED", "INVALID_TYPE", "MIN_LENGTH", "MAX_LENGTH"}

\* A pattern mismatch of the URL pattern after email() followed by url().
UrlMismatchAfterEmail ==
    /\ Called
    /\ RootValidator.customMessage = <<"Invalid email format">>
    /\ RootValidator.regexPattern = <<RegExp(UrlSource, FALSE)>>
    /\ \E e \in TheErrors : e.code = "PATTERN_MISMATCH"

(* Hunt and target modes of the CPU player. *)

\* The four orthogonal neighbours of the cell a location names.
Neighbours(location) ==
    LET cell == parseLocation(location)
    IN {<<cell.row - 1, cell.col>>, <<cell.row + 1, cell.col>>,
        <<cell.row, cell.col - 1>>, <<cell.row, cell.col + 1>>}

\* The locations of the neighbours that are cells of the board of the player.
NeighbourLocations(cpu, location) ==
    {formatLocation(cell[1], cell[2]) : cell \in Neighbours(location) \cap Cells(cpu.board)}

\* The locations of an array, as a set.
Elements(array) == {array[i] : i \in DOMAIN array}

\* The locations a hit at location that does not sink has to queue.
NewTargets(cpu, location) ==
    NeighbourLocations(cpu, location) \ (Elements(cpu.guesses) \cup Elements(cpu.targetQueue))

\* processAttackResult has returned without throwing.
AttackResultProcessed == CPUCalled("processAttackResult") /\ ~IsThrown(result)

SunkEmptiesQueue ==
    /\ AttackResultProcessed
    /\ call.args[2].hit /\ call.args[2].sunk
    /\ call.cpu.targetQueue # <<>>
    /\ TheCPU.mode = "hunt"

\* A miss in target mode with an empty queue.
MissEndsTargetMode ==
    /\ AttackResultProcessed
    /\ ~call.args[2].hit
    /\ call.cpu.mode = "target"
    /\ call.cpu.targetQueue = <<>>
    /\ TheCPU.mode = "hunt"

\* A miss in target mode with targets left.
MissKeepsTargetMode ==
    /\ AttackResultProcessed
    /\ ~call.args[2].hit
    /\ call.cpu.targetQueue # <<>>
    /\ TheCPU.mode = "target"

(* ----------------------------- rotor stepping --------------------------- *)

\* The positions of the left rotor, and of the middle and the right rotor,
\* of the machines whose rotors are stepped.
LeftPositions == {0, 25}
RotorPositions == 0..25

\* The characters typed while the rotors are watched: a letter and a space.
RotorChars == {"A", " "}

RotorInit ==
    /\ heap \in {<<Enigma(ids, <<left, middle, right>>, <<0, 0, 0>>, <<>>)>> :
                    ids \in EnigmaRotorIDs, left \in LeftPositions,
                    middle \in RotorPositions, right \in RotorPositions}
    /\ call = <<>>
    /\ result = <<>>
    /\ previous = <<>>
    /\ legacyDate = NaN

\* enigma.stepRotors()
StepRotorsCall ==
    /\ Typed + 1 <= MaxTyped
    /\ heap' = <<stepRotors(TheEnigma)>>
    /\ call' = [method |-> "stepRotors", text |-> <<>>, enigma |-> TheEnigma,
                typed |-> Typed + 1]
    /\ result' = Undefined
    /\ UNCHANGED <<previous, legacyDate>>

RotorNext ==
    \/ StepRotorsCall
    \/ \E c \in RotorChars : EncryptCharCall(c)

RotorSpec == RotorInit /\ [][RotorNext]_vars

\* The rotors have been stepped: by a stepRotors call, or by encryptChar for
\* a letter of the alphabet.
RotorsStepped ==
    /\ call # <<>>
    /\ \/ call.method = "stepRotors"
       \/ call.method = "encryptChar" /\ indexOf(alphabet, call.text[1]) >= 0

\* The rotor is where its notch letter is.
NotchReached(rotor) == rotor.position = indexOf(alphabet, rotor.notch)

\* The position of a rotor that has advanced by n.
Advanced(rotor, n) == (rotor.position + n) % 26

\* C29: a step advances the right rotor by one, the middle rotor by one when
\* the middle or the right rotor was at its notch and by nothing otherwise,
\* and the left rotor by one exactly when the middle rotor was at its notch;
\* the positions stay in 0..25.
C29_RotorStepping ==
    /\ RotorsStepped =>
          LET before == call.enigma.rotors
              after == TheEnigma.rotors
          IN /\ after[3].position = Advanced(before[3], 1)
             /\ after[2].position =
                    Advanced(before[2], IF NotchReached(before[2]) \/ NotchReached(before[3])
                                        THEN 1 ELSE 0)
             /\ after[1].position =
                    Advanced(before[1], IF NotchReached(before[2]) THEN 1 ELSE 0)
    /\ \A i \in 1..3 : TheEnigma.rotors[i].position \in 0..25

\* A step with the middle and the right rotor both at their notches.
C29_Witness ==
    /\ RotorsStepped
    /\ NotchReached(call.enigma.rotors[2])
    /\ NotchReached(call.enigma.rotors[3])
    /\ TheEnigma.rotors[2].position = Advanced(call.enigma.rotors[2], 1)

\* A step that takes the right rotor from 25 to 0.
RotorWrapped ==
    /\ RotorsStepped
    /\ call.enigma.rotors[3].position = 25
    /\ TheEnigma.rotors[3].position = 0

\* encryptChar of a character that is no letter leaves the rotors alone.
NoStepWithoutLetter ==
    (call # <<>> /\ call.method = "encryptChar" /\ indexOf(alphabet, call.text[1]) < 0)
        => TheEnigma = call.enigma

(* ------------------------ locations of larger boards -------------------- *)

\* The sizes the Board constructor accepts.
LocationSizes == {size \in 0..21 : ~IsThrown(Board(size))}

LocationInit ==
    /\ heap \in {<<Board(size)>> : size \in LocationSizes}
    /\ call = <<>>
    /\ result = <<>>
    /\ previous = <<>>
    /\ legacyDate = NaN

\* board.formatLocation(row, col) for a coordinate of the board; the string
\* returned is kept as a string value.
FormatLocationCall(row, col) ==
    /\ isValidCoordinate(TheBoard, row, col)
    /\ call' = [method |-> "formatLocation", args |-> <<row, col>>, board |-> TheBoard]
    /\ result' = Str(formatLocation(row, col))
    /\ UNCHANGED <<heap, previous, legacyDate>>

\* board.parseLocation(location) for the location formatLocation has just
\* returned; the call keeps the coordinate that was formatted.
ParseLocationCall ==
    /\ BoardCalled("formatLocation")
    /\ call' = [method |-> "parseLocation", args |-> <<result.s>>, board |-> TheBoard,
                formatted |-> call.args]
    /\ result' = parseLocation(result.s)
    /\ UNCHANGED <<heap, previous, legacyDate>>

LocationNext ==
    \/ \E cell \in Cells(TheBoard) : FormatLocationCall(cell[1], cell[2])
    \/ ParseLocationCall

LocationSpec == LocationInit /\ [][LocationNext]_vars

\* parseLocation gave back the coordinate that was formatted.
RoundTrip ==
    result = [row |-> call.formatted[1], col |-> call.formatted[2]]

\* No other coordinate of the board has the location that was returned.
OnlyLocation ==
    \A cell \in Cells(TheBoard) :
        formatLocation(cell[1], cell[2]) = formatLocation(call.args[1], call.args[2])
            => cell = call.args

\* C30: on every board the constructor accepts, parseLocation of the
\* formatted location of a coordinate of the board is that coordinate, and
\* two coordinates of the board never have the same location.
C30_LocationRoundTrip ==
    /\ BoardCalled("parseLocation") => RoundTrip
    /\ BoardCalled("formatLocation") => OnlyLocation

\* What holds: the same on boards of size 10 and less, whose rows and
\* columns are one digit each.
RoundTripOfOneDigit ==
    TheBoard.size <= 10 =>
        /\ BoardCalled("parseLocation") => RoundTrip
        /\ BoardCalled("formatLocation") => OnlyLocation

\* The location of a row of two digits does not parse.
LongLocationThrown ==
    /\ BoardCalled("parseLocation")
    /\ call.formatted = <<10, 0>>
    /\ IsThrown(result)

\* Two coordinates of a board with one location.
SharedLocation ==
    /\ BoardCalled("formatLocation")
    /\ call.args = <<1, 10>>
    /\ result = Str(formatLocation(11, 0))
    /\ isValidCoordinate(TheBoard, 11, 0)

\* A round trip on the largest board of one-digit coordinates.
OneDigitRoundTrip ==
    /\ BoardCalled("parseLocation")
    /\ TheBoard.size = 10
    /\ call.formatted = <<9, 9>>
    /\ RoundTrip

====
